---- MODULE Spec2Model ----
(***************************************************************************)
(* Verification model of the live-transcripts pipeline (aaronsb/cwmc):     *)
(* VAD segmenter (batching.py), audio loop and recording control (main.py, *)
(* live_qa.py), transcription dispatcher with model fallback               *)
(* (transcription/manager.py, whisper_integration.py), context store       *)
(* (gemini_integration.py) and broadcast fan-out (live_qa.py).             *)
(*                                                                         *)
(* Scale: one model second is 2 samples (the code's 16000), times are in   *)
(* milliseconds, samples are int16 amplitudes drawn from SampleValues.     *)
(***************************************************************************)
EXTENDS Integers, Sequences, FiniteSets, TLC

(***************************************************************************)
(* Bounds of the exploration                                               *)
(***************************************************************************)
\* total number of samples the segmenter may accept in one run
MaxConsumed == 5
\* longest audio chunk handed to add_audio_chunk
MaxChunk == 2
\* number of clock advances in one run
MaxTicks == 2

\* Optional values: None is the empty tuple, Some(x) the one-element tuple
None == << >>
Some(x) == << x >>
Val(o) == o[1]

\* int16 amplitudes used for samples: one quiet, one loud
SampleValues == {0, 3}


(***************************************************************************)
(* BatchingConfig, scaled: 16000 Hz -> 2 Hz, 3 s / 30 s -> 1 s / 2 s        *)
(***************************************************************************)
DefaultConfig ==
    [ min_batch_duration |-> 1,      \* seconds
      max_batch_duration |-> 2,      \* seconds
      silence_threshold  |-> 500,    \* milliseconds
      sample_rate        |-> 2,      \* samples per second
      overlap_duration   |-> 500,    \* milliseconds (0.5 s)
      energy_threshold   |-> 2 ]     \* RMS amplitude

\* milliseconds the clock advances per Tick
TickMs == DefaultConfig.silence_threshold

\* the rate AudioBatch.__post_init__ assumes when it derives the duration
AssumedSampleRate == DefaultConfig.sample_rate

\* overlap_duration values explored (ms); the code does not validate it
OverlapChoices == {0, 500, 1000}

\* BatchingConfig.__post_init__
ConfigValid(c) ==
    /\ c.min_batch_duration > 0
    /\ c.max_batch_duration > c.min_batch_duration
    /\ c.silence_threshold > 0
    /\ c.sample_rate > 0

Configs ==
    { c \in { [DefaultConfig EXCEPT !.overlap_duration = o] : o \in OverlapChoices } :
        ConfigValid(c) }

(***************************************************************************)
(* Sequences helpers                                                       *)
(***************************************************************************)
\* all sequences over S of length 0..n
SeqsUpTo(S, n) == UNION { [1..k -> S] : k \in 0..n }

RECURSIVE SumSq(_)
SumSq(s) == IF s = <<>> THEN 0 ELSE Head(s) * Head(s) + SumSq(Tail(s))

\* (variant: the slice taken from the front, s[:n])
PySuffix_front(s, n) == SubSeq(s, 1, n)

\* Python slice s[-n:] : the last n elements; s[-0:] is s[0:], the whole list
PySuffix(s, n) ==
    IF n = 0 THEN s
    ELSE SubSeq(s, Len(s) - n + 1, Len(s))

Chunks == SeqsUpTo(SampleValues, MaxChunk)

RemoveAt(s, i) == SubSeq(s, 1, i - 1) \o SubSeq(s, i + 1, Len(s))

\* elements of a sequence
Range(s) == { s[i] : i \in 1..Len(s) }

\* batch ids of the messages of the given type, in order of receipt
RECURSIVE SelectIds(_, _)
SelectIds(s, type) ==
    IF s = <<>> THEN <<>>
    ELSE IF Head(s).type = type THEN << Head(s).batch_id >> \o SelectIds(Tail(s), type)
    ELSE SelectIds(Tail(s), type)

StrictlyIncreasing(s) == \A i, j \in 1..Len(s) : i < j => s[i] < s[j]

VARIABLES
    \* ---- environment
    config,               \* the BatchingConfig of the run
    now,                  \* wall clock, ms
    consumed,             \* samples accepted by add_audio_chunk so far, in order
    \* ---- VADAudioBatcher / SilenceDetector
    current_batch,        \* pending buffer
    batch_start_time,     \* None or ms
    sequence_id,          \* next sequence number
    previous_batch_audio, \* None or the audio of the last emitted batch
    silence_start_time,   \* None or ms
    emitted,              \* every batch emitted, in emission order
    \* ---- LiveTranscriptsApp / BatchProcessor
    is_running,           \* LiveTranscriptsApp.is_running
    recording_paused,     \* LiveTranscriptsApp.recording_paused
    loop_pc,              \* position of _audio_processing_loop
    frames,               \* frames the source has delivered to the loop
    bp_running,           \* BatchProcessor.is_running
    batch_queue,          \* BatchQueue._queue
    \* ---- TranscriptionManager
    is_processing,
    processing_queue,     \* _processing_queue
    transcription_history,
    disp,                 \* position of _process_queue: pc, batch in hand, model index
    attempts,             \* every client.transcribe_batch call: batch, model, outcome
    failed,               \* sequence ids of the batches every model failed for
    \* ---- ContextManager
    transcriptions,
    \* ---- LiveQAServer
    recording_enabled,
    active_connections,
    ws_state,             \* per websocket: new, open, closed (peer gone), gone
    inbox,                \* per websocket: the messages the client received
    bcast,                \* per broadcasting task: the broadcast_message call in progress
    handler,              \* per websocket: position of its message handler
    controls,             \* recording_control messages processed so far
    start_seen,           \* a client has sent recording_control start
    \* ---- transcription clients (WhisperClient, GPT4oClient)
    transcription_config, \* the TranscriptionConfig of the run
    stats,                \* per model: the client's _stats counters
    requests,             \* every API request made: batch, model, outcome
    current_attempt,      \* RetryManager.current_attempt of the call in progress
    \* ---- BatchQueue
    dequeued,             \* sequence ids BatchQueue.get returned, in order
    \* ---- QAHandler, WebSocketHandler, SessionManager
    conversation_history, \* per QAHandler instance: its chat history
    pending_request,      \* per websocket: None or the question being answered
    received,             \* per websocket: the inbound messages read so far
    session_state,        \* per websocket: state of the session of its handler
    \* ---- contextual_questions_task and QAHandler.generate_contextual_questions
    questions_pc,         \* position of contextual_questions_task
    last_questions,       \* what every generate_contextual_questions call returned
    llm_reply,            \* None or what the latest LLM call comes or came back with
    \* ---- InsightGenerator.start_automated_insights
    insight_pc,           \* position of the generator's loop
    insight_wake_at,      \* when its current sleep ends, ms
    insight_calls,        \* every generation attempted: kind, time, outcome
    insights,             \* every MeetingInsight handed to the callbacks
    \* ---- SessionManager
    sessions,             \* SessionManager.sessions, in insertion order
    next_session_id,      \* sessions created so far
    qa_pairs,             \* Q&A pairs added to session histories so far
    sweeps,               \* rounds of cleanup_task so far
    \* ---- KnowledgeBase
    documents,            \* KnowledgeBase.documents, in insertion order
    next_doc_id,          \* documents created so far (stands for uuid4)
    kb_now,               \* what datetime.now() returns to the knowledge base
    kb_ops,               \* knowledge-base operations so far
    \* ---- session intent
    current_intent,       \* LiveQAServer.current_intent
    session_intent,       \* per component: its session_intent field
    intents_received,     \* the intents clients supplied, stripped, in order
    prompts               \* every prompt built: by whom, the focus it names

segVars == << config, now, consumed, current_batch, batch_start_time, sequence_id,
              previous_batch_audio, silence_start_time, emitted >>

loopVars == << is_running, recording_paused, loop_pc, frames, bp_running, batch_queue >>

dispVars == << is_processing, processing_queue, transcription_history, disp, attempts,
               failed, transcriptions >>

serverVars == << recording_enabled, active_connections, ws_state, inbox, bcast, handler,
                 controls, start_seen >>

retryVars == << transcription_config, stats, requests, current_attempt >>

\* the state outside the segmenter, the audio loop, the dispatcher and the server
qaVars == << conversation_history, pending_request, received, session_state >>

\* contextual questions (but for the task's position), insights, session table
suggestLog == << last_questions, llm_reply >>
insightVars == << insight_pc, insight_wake_at, insight_calls, insights >>
sessVars == << sessions, next_session_id, qa_pairs, sweeps >>
kbVars == << documents, next_doc_id, kb_now, kb_ops >>
intentVars == << current_intent, session_intent, intents_received, prompts >>
assistVars == << suggestLog, insightVars, sessVars, kbVars, intentVars >>

extVars == << retryVars, dequeued, qaVars, questions_pc, assistVars >>

vars == << segVars, loopVars, dispVars, serverVars, extVars >>

(***************************************************************************)
(* SilenceDetector                                                         *)
(***************************************************************************)
\* _calculate_rms_energy(chunk) > energy_threshold, in integers:
\* sqrt(mean(x^2)) > t  <=>  sum(x^2) > t^2 * len   (t >= 0, len > 0)
EnergyAbove(chunk, t) ==
    IF Len(chunk) = 0 THEN 0 > t
    ELSE SumSq(chunk) > t * t * Len(chunk)

\* is_silence: the silence_start_time it leaves behind
is_silence_start(chunk, start, t) ==
    IF EnergyAbove(chunk, config.energy_threshold) THEN None
    ELSE IF start = None THEN Some(t) ELSE start

\* is_silence: the value returned
is_silence(chunk) == ~EnergyAbove(chunk, config.energy_threshold)

\* get_silence_duration, ms
get_silence_duration(start, t) == IF start = None THEN 0 ELSE t - Val(start)

(***************************************************************************)
(* VADAudioBatcher                                                         *)
(***************************************************************************)
\* int(overlap_duration * sample_rate)
overlap_samples(c) == (c.overlap_duration * c.sample_rate) \div 1000

\* _calculate_overlap: None or the samples to replay
_calculate_overlap(prev, c) ==
    IF prev = None THEN None
    ELSE IF Len(Val(prev)) < overlap_samples(c) THEN prev
    ELSE Some(PySuffix(Val(prev), overlap_samples(c)))

\* (variant: the replayed samples put after the pending ones)
batch_audio_overlap_last(pending, prev, c) ==
    LET overlap == _calculate_overlap(prev, c)
    IN  IF overlap # None /\ Len(Val(overlap)) > 0 THEN pending \o Val(overlap)
        ELSE pending

\* audio_data of the batch _create_batch builds from the pending buffer
batch_audio(pending, prev, c) ==
    LET overlap == _calculate_overlap(prev, c)
    IN  IF overlap # None /\ Len(Val(overlap)) > 0 THEN Val(overlap) \o pending
        ELSE pending

\* AudioBatch.__post_init__: duration in ms from the sample count
AudioBatchDuration(audio) ==
    IF Len(audio) > 0 THEN (Len(audio) * 1000) \div AssumedSampleRate ELSE 0

\* (variant: the counter advanced twice per batch)
next_sequence_id_twice(s) == s + 2

\* self.sequence_id += 1
next_sequence_id(s) == s + 1

\* _create_batch on a pending buffer (fresh and forced are bookkeeping of the
\* model: the number of newly consumed samples, and whether force_batch made it)
_create_batch(pending, start_time, prev, seq, forced) ==
    LET audio == batch_audio(pending, prev, config)
    IN  [ audio_data  |-> audio,
          timestamp   |-> IF start_time # None THEN Val(start_time) ELSE now,
          duration    |-> AudioBatchDuration(audio),
          sequence_id |-> seq,
          is_final    |-> FALSE,
          fresh       |-> Len(pending),
          forced      |-> forced ]

\* should_batch of _process_audio_chunk, for the extended pending buffer
should_batch(pending, chunk, start) ==
    \/ Len(pending) >= config.max_batch_duration * config.sample_rate
    \/ /\ Len(pending) >= config.min_batch_duration * config.sample_rate
       /\ is_silence(chunk)
       /\ get_silence_duration(start, now) >= config.silence_threshold

\* the value add_audio_chunk(chunk) returns: None or Some(batch)
add_audio_chunk_result(chunk) ==
    LET pending == current_batch \o chunk
        start   == is_silence_start(chunk, silence_start_time, now)
        bst     == IF batch_start_time = None THEN Some(now) ELSE batch_start_time
    IN  IF should_batch(pending, chunk, start)
        THEN Some(_create_batch(pending, bst, previous_batch_audio, sequence_id, FALSE))
        ELSE None

\* The state change of add_audio_chunk(chunk).  The lock is an asyncio.Lock and
\* the body has no suspension point, so a call is one atomic step whichever task
\* makes it; calls of several tasks interleave call by call.
add_audio_chunk(chunk) ==
    LET b == add_audio_chunk_result(chunk)
    IN  /\ silence_start_time' = is_silence_start(chunk, silence_start_time, now)
        /\ consumed' = consumed \o chunk
        /\ IF b # None
           THEN /\ previous_batch_audio' = Some(Val(b).audio_data)
                /\ sequence_id' = next_sequence_id(sequence_id)
                /\ current_batch' = <<>>          \* _reset_batch
                /\ batch_start_time' = None
                /\ emitted' = Append(emitted, Val(b))
           ELSE /\ current_batch' = current_batch \o chunk
                /\ batch_start_time' = IF batch_start_time = None THEN Some(now)
                                       ELSE batch_start_time
                /\ UNCHANGED << previous_batch_audio, sequence_id, emitted >>

\* the value force_batch() returns: None or Some(batch)
force_batch_result ==
    IF Len(current_batch) > 0
    THEN Some(_create_batch(current_batch, batch_start_time, previous_batch_audio,
                            sequence_id, TRUE))
    ELSE None

\* the state change of force_batch()
force_batch ==
    LET b == force_batch_result
    IN  /\ IF b # None
           THEN /\ previous_batch_audio' = Some(Val(b).audio_data)
                /\ sequence_id' = next_sequence_id(sequence_id)
                /\ current_batch' = <<>>
                /\ batch_start_time' = None
                /\ emitted' = Append(emitted, Val(b))
           ELSE UNCHANGED << previous_batch_audio, sequence_id, current_batch,
                             batch_start_time, emitted >>
        /\ UNCHANGED << consumed, silence_start_time >>

(***************************************************************************)
(* BatchQueue and BatchProcessor                                           *)
(***************************************************************************)
\* BatchQueue.max_size (100 in the code), kept small
MaxQueue == 2

\* (variant: the batch pushed at the front of the deque)
BatchQueuePut_front(q, b) ==
    IF Len(q) >= MaxQueue THEN << b >> \o Tail(q) ELSE << b >> \o q

\* BatchQueue.put: a full queue drops its oldest batch
BatchQueuePut(q, b) ==
    IF Len(q) >= MaxQueue THEN Append(Tail(q), b) ELSE Append(q, b)

\* (variant: the newest batch returned)
BatchQueueGet_newest(q) == IF q # <<>> THEN Some(q[Len(q)]) ELSE None

\* BatchQueue.get: the batch returned, None on an empty queue
BatchQueueGet(q) == IF q # <<>> THEN Some(Head(q)) ELSE None

\* BatchQueue.get: the queue left behind
BatchQueueRest(q) == IF q # <<>> THEN Tail(q) ELSE q

(***************************************************************************)
(* TranscriptionConfig and the attempt list                                *)
(***************************************************************************)
TranscriptionConfig ==
    [ transcription_model |-> "gpt-4o-transcribe",
      model_fallback      |-> << "whisper-1" >>,
      max_retries         |-> 3 ]

\* max_retries values explored; WhisperConfig rejects negative ones only
MaxRetriesChoices == { 1, 3, 5 }

TranscriptionConfigs ==
    { [ TranscriptionConfig EXCEPT !.max_retries = r ] : r \in MaxRetriesChoices }

\* (variant: the fallback list tried before the primary model)
models_to_try_fallback_first(c) == c.model_fallback \o << c.transcription_model >>

\* models_to_try of transcribe_batch_with_fallback
models_to_try(c) == << c.transcription_model >> \o c.model_fallback

Models == { "gpt-4o-transcribe", "whisper-1" }

\* _get_client: the max_retries the client of a model is configured with
client_max_retries(c, model) == c.max_retries

\* the max_retries argument of the async_retry decorator on
\* _make_transcription_request
AsyncRetryMaxRetries == 3

\* RetryManager.should_retry
should_retry(attempt, max_retries) == attempt < max_retries

\* the _stats of a new client
InitialStats == [ total_requests |-> 0, successful_requests |-> 0, failed_requests |-> 0 ]

\* transcribe_batch on entry: self._stats['total_requests'] += 1
stats_on_call(st, model) ==
    [ st EXCEPT ![model].total_requests = @ + 1 ]

\* transcribe_batch on return (successful_requests) or raise (failed_requests)
stats_on_outcome(st, model, ok) ==
    IF ok THEN [ st EXCEPT ![model].successful_requests = @ + 1 ]
    ELSE [ st EXCEPT ![model].failed_requests = @ + 1 ]

\* _process_response: the TranscriptionResult of a batch
TranscriptionResult(batch, model) ==
    [ batch_id  |-> batch.sequence_id,
      timestamp |-> batch.timestamp,
      model     |-> model ]

\* (variant: the segment not stored)
add_transcription_skip(store, result) == store

\* ContextManager.add_transcription
add_transcription(store, result) == Append(store, result)

(***************************************************************************)
(* LiveQAServer: connections and broadcast                                 *)
(***************************************************************************)
WebSockets == { "w1", "w2" }

\* tasks that call broadcast_message: the dispatcher (transcripts, through the
\* result callback), each connection's message handler (recording_status),
\* contextual_questions_task (suggested_questions) and the task
\* _on_insight_generated creates for an insight
Broadcasters == { "disp", "questions", "insight" } \cup WebSockets

Msg(type, batch_id, recording) ==
    [ type |-> type, batch_id |-> batch_id, recording |-> recording,
      request_id |-> None ]

TranscriptMsg(result) == Msg("transcript", result.batch_id, FALSE)
RecordingStatusMsg(action) == Msg("recording_status", -1, action = "start")
StatusMsg == Msg("status", -1, FALSE)
ErrorMsg == Msg("error", -1, FALSE)
\* broadcast_suggested_questions and broadcast_insight; n tells them apart
SuggestedQuestionsMsg(n) == Msg("suggested_questions", n, FALSE)
InsightMsg(n) == Msg("insight", n, FALSE)

IdleBcast == [ msg |-> None, visited |-> {}, size |-> 0, disconnected |-> {} ]

\* broadcast_message up to its first send: nothing to do without connections,
\* else a pass over the live set that remembers the set's size
StartBcast(msg) ==
    IF active_connections = {} THEN IdleBcast
    ELSE [ msg |-> Some(msg), visited |-> {}, size |-> Cardinality(active_connections),
           disconnected |-> {} ]

\* LiveQAServer.__init__ and LiveTranscriptsApp.__init__
InitialRecordingEnabled == TRUE
InitialRecordingPaused == FALSE

\* number of frames the source delivers in one run
MaxFrames == 3
\* number of recording_control messages clients send in one run
MaxControls == 1

\* frames the source delivers: each PipeChunks frame fills a batch (max-closed),
\* two RecChunks frames do
PipeChunks == { << 3, 3, 3, 3 >> }
RecChunks == { << 3, 3 >> }

(***************************************************************************)
(* Q&A: QAHandler (gemini_integration.py) and the message handling of      *)
(* WebSocketHandler (live_qa.py)                                           *)
(***************************************************************************)
\* GeminiConfig, scaled: max_conversation_length 20 -> 2; no focus_prompt
GeminiConfig == [ max_conversation_length |-> 2, focus_prompt |-> << >> ]

\* the server has one QAHandler; connection_handler gives it to the
\* WebSocketHandler of every connection
QAHandlers == { "qa_handler" }
qa_handler_of(w) == "qa_handler"

\* number of inbound messages the clients send in one run
MaxMessages == 3

\* an inbound text frame: what it parses to, and the request_id it carries
\* (None when absent, Some("") when empty)
Inbound(kind, request_id) == [ kind |-> kind, request_id |-> request_id ]

InboundMessages ==
    { Inbound("malformed", None),               \* not JSON
      Inbound("unknown_type", Some("r1")),      \* type outside MessageType
      Inbound("unhandled_type", Some("r1")),    \* a MessageType no branch handles
      Inbound("question_no_content", Some("r1")), \* content absent or empty
      Inbound("question_blank", Some("r1")),    \* content only whitespace
      Inbound("question", Some("r1")),
      Inbound("question", Some("")),
      Inbound("question", None) }

\* json.loads succeeds
json_loads_ok(m) == m.kind # "malformed"

\* WebSocketHandler._validate_message
_validate_message(m) == m.kind \notin { "unknown_type", "question_no_content" }

\* request_id of the QARequest: data.get("request_id", str(uuid.uuid4()))
QARequest_request_id(m) == IF m.request_id = None THEN Some("uuid") ELSE m.request_id

\* QARequest.is_valid
is_valid(m, session) ==
    /\ m.kind = "question"                      \* len(question.strip()) > 0
    /\ session # "none"                         \* len(session_id.strip()) > 0
    /\ QARequest_request_id(m) # Some("")       \* len(request_id.strip()) > 0

ReplyMsg(type, request_id) ==
    [ Msg(type, -1, FALSE) EXCEPT !.request_id = request_id ]

\* (variant: the error swallowed)
_send_error_none(request_id) == << >>

\* _send_error: the messages it sends
_send_error(request_id) == << ReplyMsg("error", request_id) >>

\* _send_response: the messages it sends
_send_response(request_id) == << ReplyMsg("answer", request_id) >>

ChatMessage(role, q) == [ role |-> role, q |-> q ]

\* QAHandler._prune_conversation_history
_prune_conversation_history(h) ==
    IF Len(h) > GeminiConfig.max_conversation_length
    THEN PySuffix(h, GeminiConfig.max_conversation_length)
    ELSE h

\* _process_message for a message that gets its reply at once: the messages
\* sent (a valid question is answered later, when the LLM call is over)
process_message_replies(m, session) ==
    IF ~json_loads_ok(m) THEN _send_error(None)            \* JSONDecodeError
    ELSE IF ~_validate_message(m) THEN _send_error(None)   \* Invalid message format
    ELSE IF m.kind \in { "question", "question_blank" }
    THEN IF ~is_valid(m, session) THEN _send_error(QARequest_request_id(m))
         ELSE << >>
    ELSE _send_error(m.request_id)                         \* Unknown message type

\* the message goes on to QAHandler.answer_question
is_answered(m, session) ==
    json_loads_ok(m) /\ _validate_message(m) /\ is_valid(m, session)

(***************************************************************************)
(* QAHandler.generate_contextual_questions (gemini_integration.py)         *)
(* A string is the sequence of its characters, by class: " " whitespace,   *)
(* "1" a digit or bullet of the prefix set, "a" any other character, "?"   *)
(***************************************************************************)
MaxLines == 5

WhiteSpace == { " " }
PrefixChars == { "1", " " }          \* '0123456789.-*•● '

RECURSIVE py_lstrip(_, _)
py_lstrip(s, chars) ==
    IF s # <<>> /\ Head(s) \in chars THEN py_lstrip(Tail(s), chars) ELSE s

RECURSIVE py_rstrip(_, _)
py_rstrip(s, chars) ==
    IF s # <<>> /\ s[Len(s)] \in chars
    THEN py_rstrip(SubSeq(s, 1, Len(s) - 1), chars) ELSE s

py_strip(s) == py_rstrip(py_lstrip(s, WhiteSpace), WhiteSpace)

has_question_mark(s) == \E i \in 1..Len(s) : s[i] = "?"

\* lines an LLM response is made of: blank, bullet only, statement, numbered
\* question
ResponseLines ==
    { << " " >>, << "1", " " >>, << "a" >>, << "1", " ", "a", "?" >> }

Responses == SeqsUpTo(ResponseLines, MaxLines)

\* both default lists: four questions
default_questions == << << "a", "?" >>, << "a", "?" >>, << "a", "?" >>, << "a", "?" >> >>

\* the for loop over the response's lines
RECURSIVE parse_questions(_)
parse_questions(lines) ==
    IF lines = <<>> THEN <<>>
    ELSE LET stripped == py_strip(Head(lines))
             line == py_lstrip(stripped, PrefixChars)
         IN  IF stripped = <<>> THEN parse_questions(Tail(lines))
             ELSE IF line # <<>> /\ has_question_mark(line)
                  THEN << line >> \o parse_questions(Tail(lines))
                  ELSE parse_questions(Tail(lines))

\* while len(questions) < 4 and default_questions: append default_questions.pop(0)
RECURSIVE fill_defaults(_, _)
fill_defaults(questions, defaults) ==
    IF Len(questions) < 4 /\ defaults # <<>>
    THEN fill_defaults(Append(questions, Head(defaults)), Tail(defaults))
    ELSE questions

\* (variant: nothing is cut)
PyPrefix_all(s, n) == s

\* questions[:4]
PyPrefix(s, n) == SubSeq(s, 1, IF Len(s) < n THEN Len(s) ELSE n)

\* get_context_text is empty exactly when the store holds no transcription
context_is_empty(store) == store = <<>>

\* what client.generate_content can come back with: a response, or an exception
LLMReplies(responses) ==
    { [ ok |-> TRUE, lines |-> r ] : r \in responses } \cup { [ ok |-> FALSE, lines |-> <<>> ] }

\* what the call returns once the LLM answered or raised
questions_from_llm(reply) ==
    IF reply.ok
    THEN PyPrefix(fill_defaults(parse_questions(reply.lines), default_questions), 4)
    ELSE default_questions

(***************************************************************************)
(* InsightGenerator.start_automated_insights (gemini_integration.py)       *)
(***************************************************************************)
\* GeminiConfig.insight_interval_seconds (60 by default), of one model second
insight_interval_seconds == 1
insight_interval_ms == insight_interval_seconds * 1000

MaxInsightTicks == 8

\* int(time.time())
current_time(t) == t \div 1000

insight_type_index(t) == (current_time(t) \div insight_interval_seconds) % 2

\* index 0 calls generate_summary, index 1 generate_action_items
insight_kind(t) == IF insight_type_index(t) = 0 THEN "summary" ELSE "action_items"

\* (variant: an exception ends the generator's loop)
insight_after_failure_pc_stop == "stopped"

\* the loop's except clause prints and the loop goes on with its next sleep
insight_after_failure_pc == "sleep"

(***************************************************************************)
(* KnowledgeBase.  A string is the sequence of its lines (what split on    *)
(* newline gives), a line the sequence of its characters; the empty string *)
(* is one empty line.                                                      *)
(***************************************************************************)
EmptyString == << << >> >>

\* the lines "\n\n---\n\n" puts between the last line of one string and the
\* first line of the next
SeparatorLines == << << >>, << "-", "-", "-" >>, << >> >>

\* knowledge-base operations and clock readings in one run
MaxKbOps == 4
MaxKbClock == 2
MaxDocs == 2

\* contents of the documents of a knowledge base
KbContents == { << << "a" >> >>, << << "b" >> >>, << << "a" >>, << "b" >> >> }

\* KnowledgeDocument
KnowledgeDocument(doc_id, content, created_at, updated_at) ==
    [ doc_id |-> doc_id, content |-> content,
      created_at |-> created_at, updated_at |-> updated_at ]

DocIndex(docs, id) == CHOOSE i \in 1..Len(docs) : docs[i].doc_id = id

DocIds(docs) == { docs[i].doc_id : i \in 1..Len(docs) }

\* add_document: the dict with the new entry at its end
add_document(docs, id, content, t) ==
    Append(docs, KnowledgeDocument(id, content, t, t))

\* KnowledgeDocument.update_content
update_content(d, new_content, t) ==
    [ d EXCEPT !.content = new_content, !.updated_at = t ]

\* update_document for an id of the dict
update_document(docs, id, content, t) ==
    [ docs EXCEPT ![DocIndex(docs, id)] = update_content(@, content, t) ]

\* remove_document for an id of the dict
remove_document(docs, id) == RemoveAt(docs, DocIndex(docs, id))

\* (variant: the documents sorted by their last update)
sort_key_updated(d) == d.updated_at

\* key=lambda d: d.created_at
sort_key(d) == d.created_at

\* sorted(..., key=...): a stable sort, documents with equal keys stay in the
\* order of the dict
RECURSIVE sorted_docs(_)
sorted_docs(docs) ==
    IF docs = <<>> THEN <<>>
    ELSE LET i == CHOOSE i \in 1..Len(docs) :
                      /\ \A j \in 1..Len(docs) : sort_key(docs[i]) <= sort_key(docs[j])
                      /\ \A j \in 1..(i - 1) : sort_key(docs[j]) # sort_key(docs[i])
         IN  << docs[i] >> \o sorted_docs(RemoveAt(docs, i))

\* separator.join(strings)
RECURSIVE py_join(_, _)
py_join(sep, strings) ==
    IF strings = <<>> THEN EmptyString
    ELSE IF Len(strings) = 1 THEN strings[1]
    ELSE Head(strings) \o sep \o py_join(sep, Tail(strings))

\* get_content
get_content(docs) ==
    IF docs = <<>> THEN EmptyString
    ELSE LET sorted == sorted_docs(docs)
         IN  py_join(SeparatorLines, [ i \in 1..Len(sorted) |-> sorted[i].content ])

(***************************************************************************)
(* KnowledgeBase._extract_title                                            *)
(***************************************************************************)
\* titles longer than this are cut (50 in the code), kept small
TitleMax == 4

Untitled == << "U" >>                \* "Untitled Document"
Ellipsis == << ".", ".", "." >>

\* re.match(r'^#\s+(.+)$', s) on a stripped line
H1Match(s) == Len(s) >= 3 /\ s[1] = "#" /\ s[2] \in WhiteSpace

\* re.match(r'^##\s+(.+)$', s) on a stripped line
H2Match(s) == Len(s) >= 4 /\ s[1] = "#" /\ s[2] = "#" /\ s[3] \in WhiteSpace

\* match.group(1).strip(): the line after its n leading '#'
HeaderText(s, n) == py_strip(SubSeq(s, n + 1, Len(s)))

IsBlank(line) == py_strip(line) = << >>

\* content.strip().split('\n'): leading and trailing blank lines go, the
\* first line loses its leading and the last its trailing white space
RECURSIVE drop_blank_front(_)
drop_blank_front(lines) ==
    IF lines = <<>> THEN <<>>
    ELSE IF IsBlank(Head(lines)) THEN drop_blank_front(Tail(lines))
    ELSE << py_lstrip(Head(lines), WhiteSpace) >> \o Tail(lines)

RECURSIVE drop_blank_back(_)
drop_blank_back(lines) ==
    IF lines = <<>> THEN <<>>
    ELSE IF IsBlank(lines[Len(lines)]) THEN drop_blank_back(SubSeq(lines, 1, Len(lines) - 1))
    ELSE SubSeq(lines, 1, Len(lines) - 1) \o << py_rstrip(lines[Len(lines)], WhiteSpace) >>

strip_split(content) ==
    LET lines == drop_blank_back(drop_blank_front(content))
    IN  IF lines = <<>> THEN EmptyString ELSE lines

\* the first loop of _extract_title: the first line that is a header of
\* either level decides
RECURSIVE first_header(_)
first_header(lines) ==
    IF lines = <<>> THEN None
    ELSE LET s == py_strip(Head(lines))
         IN  IF H1Match(s) THEN Some(HeaderText(s, 1))
             ELSE IF H2Match(s) THEN Some(HeaderText(s, 2))
             ELSE first_header(Tail(lines))

\* title[:47] + "..." when len(title) > 50
truncate_title(title) ==
    IF Len(title) > TitleMax
    THEN SubSeq(title, 1, TitleMax - 3) \o Ellipsis
    ELSE title

\* the second loop: the first non-empty line
RECURSIVE first_text(_)
first_text(lines) ==
    IF lines = <<>> THEN None
    ELSE IF ~IsBlank(Head(lines)) THEN Some(truncate_title(py_strip(Head(lines))))
    ELSE first_text(Tail(lines))

_extract_title(content) ==
    IF content = EmptyString THEN Untitled
    ELSE LET lines == strip_split(content)
         IN  IF first_header(lines) # None THEN Val(first_header(lines))
             ELSE IF first_text(lines) # None THEN Val(first_text(lines))
             ELSE Untitled

\* list_documents: the records, in order
list_documents(docs) ==
    LET sorted == sorted_docs(docs)
    IN  [ i \in 1..Len(sorted) |->
            [ doc_id     |-> sorted[i].doc_id,
              title      |-> _extract_title(sorted[i].content),
              created_at |-> sorted[i].created_at,
              updated_at |-> sorted[i].updated_at ] ]

\* lines of the documents whose titles are looked at
TitleLines ==
    { << >>, << " " >>, << "#", " ", "a" >>, << "#", "#", " ", "b" >>, << "#", "a" >>,
      << "a", " ", "b" >>, << " ", "a", "b", "a", "b", "a" >> }

MaxTitleLines == 2

TitleContents == UNION { [1..k -> TitleLines] : k \in 1..MaxTitleLines }

(***************************************************************************)
(* Session intent and the prompts                                          *)
(***************************************************************************)
\* the components that keep a session_intent of their own
IntentHolders == { "qa_handler", "insight_generator" }

\* intent messages and prompts in one run
MaxIntents == 2
MaxPrompts == 2

\* the content field of the intent messages clients send
IntentContents == { << >>, << "a" >>, << " ", "b" >> }

\* the focus _build_summary_prompt, _build_action_items_prompt and the prompt
\* of generate_contextual_questions name: session_intent, else focus_prompt
focus_of_intent(intent) ==
    IF intent # << >> THEN intent ELSE GeminiConfig.focus_prompt

\* the focus _build_qa_prompt names: focus_prompt only
focus_of_qa_prompt(intent) == GeminiConfig.focus_prompt

\* the latest non-empty intent clients supplied, the empty string if none
latest_non_empty(log) ==
    LET idx == { i \in 1..Len(log) : log[i] # << >> }
    IN  IF idx = {} THEN << >>
        ELSE log[CHOOSE i \in idx : \A j \in idx : j <= i]

\* a prompt as built: who built it, the focus it names, and the latest
\* non-empty intent at that moment
Prompt(by, focus) ==
    [ by |-> by, focus |-> focus, latest |-> latest_non_empty(intents_received) ]

AppInit ==
    /\ is_running = TRUE
    /\ recording_paused = InitialRecordingPaused
    /\ loop_pc = "check"
    /\ frames = 0
    /\ bp_running = TRUE
    /\ batch_queue = <<>>
    /\ is_processing = TRUE
    /\ processing_queue = <<>>
    /\ transcription_history = <<>>
    /\ disp = [ pc |-> "wait", batch |-> None, idx |-> 0 ]
    /\ attempts = <<>>
    /\ failed = {}
    /\ transcriptions = <<>>
    /\ recording_enabled = InitialRecordingEnabled
    /\ active_connections = {}
    /\ ws_state = [ w \in WebSockets |-> "new" ]
    /\ inbox = [ w \in WebSockets |-> <<>> ]
    /\ bcast = [ b \in Broadcasters |-> IdleBcast ]
    /\ handler = [ w \in WebSockets |-> [ pc |-> "idle", action |-> "" ] ]
    /\ controls = 0
    /\ start_seen = FALSE
    /\ stats = [ m \in Models |-> InitialStats ]
    /\ requests = <<>>
    /\ current_attempt = 0
    /\ dequeued = <<>>
    /\ conversation_history = [ h \in QAHandlers |-> <<>> ]
    /\ pending_request = [ w \in WebSockets |-> None ]
    /\ received = [ w \in WebSockets |-> <<>> ]
    /\ session_state = [ w \in WebSockets |-> "none" ]
    /\ questions_pc = "sleep"
    /\ last_questions = <<>>
    /\ llm_reply = None
    /\ insight_pc = "sleep"
    /\ insight_wake_at = insight_interval_ms
    /\ insight_calls = <<>>
    /\ insights = <<>>
    /\ sessions = <<>>
    /\ next_session_id = 0
    /\ qa_pairs = 0
    /\ documents = <<>>
    /\ next_doc_id = 0
    /\ kb_now = 0
    /\ kb_ops = 0
    /\ current_intent = <<>>
    /\ session_intent = [ c \in IntentHolders |-> <<>> ]
    /\ intents_received = <<>>
    /\ prompts = <<>>
    /\ sweeps = 0

SegInit ==
    /\ config \in Configs
    /\ now = 0
    /\ consumed = <<>>
    /\ current_batch = <<>>
    /\ batch_start_time = None
    /\ sequence_id = 0
    /\ previous_batch_audio = None
    /\ silence_start_time = None
    /\ emitted = <<>>

\* the state after construction and LiveTranscriptsApp.start()
Init == SegInit /\ AppInit /\ transcription_config = TranscriptionConfig

(***************************************************************************)
(* The segmenter on its own: any task may add a chunk or force a flush     *)
(***************************************************************************)
AddChunk ==
    \E chunk \in Chunks :
        /\ Len(consumed) + Len(chunk) <= MaxConsumed
        /\ add_audio_chunk(chunk)
        /\ UNCHANGED << extVars, config, now, loopVars, dispVars, serverVars >>

ForceBatch ==
    /\ force_batch
    /\ UNCHANGED << extVars, config, now, loopVars, dispVars, serverVars >>

Tick ==
    /\ now < MaxTicks * TickMs
    /\ now' = now + TickMs
    /\ UNCHANGED << extVars, config, consumed, current_batch, batch_start_time, sequence_id,
                    previous_batch_audio, silence_start_time, emitted,
                    loopVars, dispVars, serverVars >>

SegNext == AddChunk \/ ForceBatch \/ Tick

SpecSeg == Init /\ [][SegNext]_vars

(***************************************************************************)
(* LiveTranscriptsApp._audio_processing_loop                               *)
(***************************************************************************)
\* top of the loop: leave when stopped, sleep when paused, else wait for a frame
LoopCheck ==
    /\ loop_pc = "check"
    /\ loop_pc' = IF ~is_running THEN "done"
                  ELSE IF recording_paused THEN "paused"
                  ELSE "await_chunk"
    /\ UNCHANGED << extVars, segVars, is_running, recording_paused, frames, bp_running,
                    batch_queue, dispVars, serverVars >>

\* the sleeps at the end of an iteration and while paused
LoopWake ==
    /\ loop_pc \in { "sleep", "paused" }
    /\ loop_pc' = "check"
    /\ UNCHANGED << extVars, segVars, is_running, recording_paused, frames, bp_running,
                    batch_queue, dispVars, serverVars >>

\* get_audio_chunk returns within the timeout: BatchProcessor.process_audio_chunk
ChunkArrives(source) ==
    /\ loop_pc = "await_chunk"
    /\ frames < MaxFrames
    /\ \E chunk \in source :
        IF bp_running
        THEN /\ add_audio_chunk(chunk)
             /\ batch_queue' =
                    IF add_audio_chunk_result(chunk) # None
                    THEN BatchQueuePut(batch_queue, Val(add_audio_chunk_result(chunk)))
                    ELSE batch_queue
        ELSE UNCHANGED << consumed, current_batch, batch_start_time, sequence_id,
                          previous_batch_audio, silence_start_time, emitted, batch_queue >>
    /\ frames' = frames + 1
    /\ loop_pc' = "sleep"
    /\ UNCHANGED << extVars, config, now, is_running, recording_paused, bp_running,
                    dispVars, serverVars >>

\* get_audio_chunk times out
ChunkTimeout ==
    /\ loop_pc = "await_chunk"
    /\ loop_pc' = "timeout"
    /\ UNCHANGED << extVars, segVars, is_running, recording_paused, frames, bp_running,
                    batch_queue, dispVars, serverVars >>

\* (variant: the loop goes back to sleep without looking at the queue)
AfterTimeout_no_get ==
    /\ loop_pc = "timeout"
    /\ loop_pc' = "sleep"
    /\ UNCHANGED << extVars, segVars, is_running, recording_paused, frames, bp_running,
                    batch_queue, dispVars, serverVars >>

\* after the timeout: get_next_batch and TranscriptionManager.transcribe_batch
AfterTimeout ==
    /\ loop_pc = "timeout"
    /\ batch_queue' = BatchQueueRest(batch_queue)
    /\ dequeued' = IF BatchQueueGet(batch_queue) # None
                   THEN Append(dequeued, Val(BatchQueueGet(batch_queue)).sequence_id)
                   ELSE dequeued
    /\ processing_queue' =
           IF BatchQueueGet(batch_queue) # None /\ is_processing
           THEN Append(processing_queue, Val(BatchQueueGet(batch_queue)))
           ELSE processing_queue
    /\ loop_pc' = "sleep"
    /\ UNCHANGED << retryVars, qaVars, segVars, is_running, recording_paused, frames,
                    bp_running, is_processing, transcription_history, disp, attempts,
                    failed, transcriptions, serverVars,
                    questions_pc, assistVars >>

(***************************************************************************)
(* LiveTranscriptsApp.stop                                                 *)
(***************************************************************************)
\* stop() up to its first suspension point, audio_capture.stop_capture():
\* is_running cleared, the dispatcher told to stop (stop_processing only
\* clears is_processing), then BatchProcessor.stop_processing, which force-
\* flushes the segmenter and puts the final batch on the batch queue
Stop ==
    /\ is_running
    /\ is_running' = FALSE
    /\ is_processing' = FALSE
    /\ bp_running' = FALSE
    /\ force_batch
    /\ batch_queue' = IF force_batch_result # None
                      THEN BatchQueuePut(batch_queue, Val(force_batch_result))
                      ELSE batch_queue
    /\ UNCHANGED << config, now, recording_paused, loop_pc, frames, processing_queue,
                    transcription_history, disp, attempts, failed, transcriptions,
                    serverVars, extVars >>

\* stop() cancels the tasks it holds, the audio loop among them (the task of
\* _process_queue is not in self.tasks)
CancelTasks ==
    /\ ~is_running
    /\ loop_pc # "done"
    /\ loop_pc' = "done"
    /\ UNCHANGED << segVars, is_running, recording_paused, frames, bp_running,
                    batch_queue, dispVars, serverVars, extVars >>

(***************************************************************************)
(* TranscriptionManager._process_queue                                     *)
(***************************************************************************)
\* the queue get returns a batch
DispatcherGet ==
    /\ disp.pc = "wait"
    /\ is_processing
    /\ processing_queue # <<>>
    /\ disp' = [ pc |-> "try", batch |-> Some(Head(processing_queue)), idx |-> 1 ]
    /\ processing_queue' = Tail(processing_queue)
    /\ UNCHANGED << extVars, segVars, loopVars, is_processing, transcription_history, attempts,
                    failed, transcriptions, serverVars >>

\* where _process_queue continues after a result: in the result callback while
\* its broadcast is under way, else back at the queue
after_result_pc == IF active_connections = {} THEN "wait" ELSE "callback"

\* (variant: the exception ends the task)
after_failure_pc_stop == "stopped"

\* where _process_queue continues after every model failed: the exception is
\* logged and the loop goes on
after_failure_pc == "wait"

\* one pass of the model loop of transcribe_batch_with_fallback: the client of
\* the current model succeeds or raises after its own retries
ModelAttempt ==
    /\ disp.pc = "try"
    /\ \E ok \in BOOLEAN :
        LET models == models_to_try(transcription_config)
            model  == models[disp.idx]
            batch  == Val(disp.batch)
            result == TranscriptionResult(batch, model)
        IN  /\ attempts' = Append(attempts, [ batch_id |-> batch.sequence_id,
                                              model |-> model, ok |-> ok ])
            /\ stats' = stats_on_outcome(stats_on_call(stats, model), model, ok)
            /\ IF ok
               THEN \* return result; history; callback: context store, broadcast
                    /\ transcription_history' = Append(transcription_history, result)
                    /\ transcriptions' = add_transcription(transcriptions, result)
                    /\ bcast' = [ bcast EXCEPT !["disp"] = StartBcast(TranscriptMsg(result)) ]
                    /\ disp' = [ pc |-> after_result_pc, batch |-> None, idx |-> 0 ]
                    /\ UNCHANGED failed
               ELSE IF disp.idx < Len(models)
               THEN \* continue with the next model
                    /\ disp' = [ disp EXCEPT !.idx = disp.idx + 1 ]
                    /\ UNCHANGED << transcription_history, transcriptions, bcast, failed >>
               ELSE \* raise last_exception, caught by _process_queue
                    /\ disp' = [ pc |-> after_failure_pc, batch |-> None, idx |-> 0 ]
                    /\ failed' = failed \cup { batch.sequence_id }
                    /\ UNCHANGED << transcription_history, transcriptions, bcast >>
    /\ UNCHANGED << segVars, loopVars, is_processing, processing_queue,
                    recording_enabled, active_connections, ws_state, inbox, handler,
                    controls, start_seen, transcription_config, requests,
                    current_attempt, dequeued, qaVars,
                    questions_pc, assistVars >>

(***************************************************************************)
(* The same model loop request by request: client.transcribe_batch and the *)
(* async_retry wrapper around _make_transcription_request                  *)
(***************************************************************************)
\* client.transcribe_batch up to the first request of the wrapper
ClientCall ==
    /\ disp.pc = "try"
    /\ LET model == models_to_try(transcription_config)[disp.idx]
       IN  stats' = stats_on_call(stats, model)
    /\ current_attempt' = 0
    /\ disp' = [ disp EXCEPT !.pc = "request" ]
    /\ UNCHANGED << segVars, loopVars, is_processing, processing_queue,
                    transcription_history, attempts, failed, transcriptions,
                    serverVars, transcription_config, requests, dequeued, qaVars,
                    questions_pc, assistVars >>

\* one request of the wrapper's while loop returns or raises
Request ==
    /\ disp.pc = "request"
    /\ \E ok \in BOOLEAN :
        LET models == models_to_try(transcription_config)
            model  == models[disp.idx]
            batch  == Val(disp.batch)
            result == TranscriptionResult(batch, model)
        IN  /\ requests' = Append(requests, [ batch_id |-> batch.sequence_id,
                                              model |-> model, ok |-> ok ])
            /\ IF ok
               THEN \* the wrapper returns; transcribe_batch returns the result
                    /\ stats' = stats_on_outcome(stats, model, TRUE)
                    /\ attempts' = Append(attempts, [ batch_id |-> batch.sequence_id,
                                                      model |-> model, ok |-> TRUE ])
                    /\ transcription_history' = Append(transcription_history, result)
                    /\ transcriptions' = add_transcription(transcriptions, result)
                    /\ bcast' = [ bcast EXCEPT !["disp"] = StartBcast(TranscriptMsg(result)) ]
                    /\ disp' = [ pc |-> after_result_pc, batch |-> None, idx |-> 0 ]
                    /\ current_attempt' = 0
                    /\ UNCHANGED failed
               ELSE IF should_retry(current_attempt + 1, AsyncRetryMaxRetries)
               THEN \* the wrapper waits and asks again
                    /\ current_attempt' = current_attempt + 1
                    /\ UNCHANGED << stats, attempts, transcription_history, transcriptions,
                                    bcast, disp, failed >>
               ELSE \* the wrapper raises last_exception; transcribe_batch re-raises
                    /\ stats' = stats_on_outcome(stats, model, FALSE)
                    /\ attempts' = Append(attempts, [ batch_id |-> batch.sequence_id,
                                                      model |-> model, ok |-> FALSE ])
                    /\ current_attempt' = 0
                    /\ UNCHANGED << transcription_history, transcriptions, bcast >>
                    /\ IF disp.idx < Len(models)
                       THEN /\ disp' = [ disp EXCEPT !.pc = "try", !.idx = disp.idx + 1 ]
                            /\ UNCHANGED failed
                       ELSE /\ disp' = [ pc |-> after_failure_pc, batch |-> None, idx |-> 0 ]
                            /\ failed' = failed \cup { batch.sequence_id }
    /\ UNCHANGED << segVars, loopVars, is_processing, processing_queue,
                    recording_enabled, active_connections, ws_state, inbox, handler,
                    controls, start_seen, transcription_config, dequeued, qaVars,
                    questions_pc, assistVars >>

(***************************************************************************)
(* LiveQAServer.broadcast_message, one step per pass of its for loop       *)
(***************************************************************************)
\* the caller of task b's broadcast resumes
Resume(b) ==
    IF b = "disp"
    THEN /\ disp' = [ disp EXCEPT !.pc = "wait" ]
         /\ UNCHANGED << handler, questions_pc >>
    ELSE IF b = "questions"
    THEN \* contextual_questions_task goes to its sleep, also after an exception
         /\ questions_pc' = "sleep"
         /\ UNCHANGED << disp, handler >>
    ELSE IF b = "insight"
    THEN \* the task created for the insight ends
         UNCHANGED << disp, handler, questions_pc >>
    ELSE /\ handler' = [ handler EXCEPT ![b] = [ pc |-> "idle", action |-> "" ] ]
         /\ UNCHANGED << disp, questions_pc >>

\* the set changed size since the pass began: the iterator raises RuntimeError,
\* which the caller's except clause takes (the handler answers with an error)
BcastRaise(b) ==
    /\ bcast[b].msg # None
    /\ Cardinality(active_connections) # bcast[b].size
    /\ bcast' = [ bcast EXCEPT ![b] = IdleBcast ]
    /\ Resume(b)
    /\ inbox' = IF b \in WebSockets /\ ws_state[b] = "open"
                THEN [ inbox EXCEPT ![b] = Append(@, ErrorMsg) ]
                ELSE inbox
    /\ UNCHANGED << retryVars, dequeued, qaVars, assistVars, segVars, loopVars,
                    is_processing, processing_queue,
                    transcription_history, attempts, failed, transcriptions,
                    recording_enabled, active_connections, ws_state, controls, start_seen >>

\* the order in which a pass over the set meets its members: it is the same
\* for every pass over the same members
IterationOrder == << "w1", "w2" >>

IterationIndex(w) == CHOOSE i \in 1..Len(IterationOrder) : IterationOrder[i] = w

\* the member the for loop takes next
next_of_pass(b) ==
    { w \in active_connections \ bcast[b].visited :
        \A v \in active_connections \ bcast[b].visited :
            IterationIndex(w) <= IterationIndex(v) }

\* websocket.send to the next connection of the pass
BcastSend(b) ==
    /\ bcast[b].msg # None
    /\ Cardinality(active_connections) = bcast[b].size
    /\ \E w \in next_of_pass(b) :
        IF ws_state[w] = "open"
        THEN /\ inbox' = [ inbox EXCEPT ![w] = Append(@, Val(bcast[b].msg)) ]
             /\ bcast' = [ bcast EXCEPT ![b].visited = @ \cup { w } ]
        ELSE \* ConnectionClosed
             /\ bcast' = [ bcast EXCEPT ![b].visited = @ \cup { w },
                                        ![b].disconnected = @ \cup { w } ]
             /\ UNCHANGED inbox
    /\ UNCHANGED << extVars, segVars, loopVars, dispVars, recording_enabled, active_connections,
                    ws_state, handler, controls, start_seen >>

\* the pass is over: drop the connections whose send failed
BcastEnd(b) ==
    /\ bcast[b].msg # None
    /\ Cardinality(active_connections) = bcast[b].size
    /\ active_connections \ bcast[b].visited = {}
    /\ active_connections' = active_connections \ bcast[b].disconnected
    /\ bcast' = [ bcast EXCEPT ![b] = IdleBcast ]
    /\ Resume(b)
    /\ UNCHANGED << retryVars, dequeued, qaVars, assistVars, segVars, loopVars,
                    is_processing, processing_queue,
                    transcription_history, attempts, failed, transcriptions,
                    recording_enabled, ws_state, inbox, controls, start_seen >>

(***************************************************************************)
(* Connections                                                             *)
(***************************************************************************)
\* connection_handler and handle_connection up to the message loop
Connect(w) ==
    /\ ws_state[w] = "new"
    /\ ws_state' = [ ws_state EXCEPT ![w] = "open" ]
    /\ active_connections' = active_connections \cup { w }
    /\ inbox' = [ inbox EXCEPT ![w] = Append(@, StatusMsg) ]
    /\ session_state' = [ session_state EXCEPT ![w] = "connected" ]   \* create_session
    /\ UNCHANGED << segVars, loopVars, dispVars, recording_enabled, bcast, handler,
                    controls, start_seen, retryVars, dequeued, conversation_history,
                    pending_request, received,
                    questions_pc, assistVars >>

\* the peer closes the connection
ClientClose(w) ==
    /\ ws_state[w] = "open"
    /\ ws_state' = [ ws_state EXCEPT ![w] = "closed" ]
    /\ UNCHANGED << extVars, segVars, loopVars, dispVars, recording_enabled, active_connections,
                    inbox, bcast, handler, controls, start_seen >>

\* (variant: the websocket stays in the active set)
HandlerCleanup_no_discard(w) ==
    /\ ws_state[w] = "closed"
    /\ handler[w].pc = "idle"
    /\ ws_state' = [ ws_state EXCEPT ![w] = "gone" ]
    /\ session_state' = [ session_state EXCEPT ![w] = "disconnected" ]
    /\ UNCHANGED << segVars, loopVars, dispVars, recording_enabled, inbox, bcast,
                    handler, controls, start_seen, retryVars, dequeued,
                    conversation_history, pending_request, received, questions_pc,
                    assistVars, active_connections >>

\* the message loop ends: the finally clauses of handle_connection
\* (close_session) and of connection_handler (discard)
HandlerCleanup(w) ==
    /\ ws_state[w] = "closed"
    /\ handler[w].pc = "idle"
    /\ ws_state' = [ ws_state EXCEPT ![w] = "gone" ]
    /\ active_connections' = active_connections \ { w }
    /\ session_state' = [ session_state EXCEPT ![w] = "disconnected" ]  \* close_session
    /\ UNCHANGED << segVars, loopVars, dispVars, recording_enabled, inbox, bcast,
                    handler, controls, start_seen, retryVars, dequeued,
                    conversation_history, pending_request, received,
                    questions_pc, assistVars >>

(***************************************************************************)
(* Recording control                                                       *)
(***************************************************************************)
\* LiveQAServer.handle_recording_control: the flag it leaves behind
handle_recording_control(enabled, action) ==
    IF action = "start" THEN TRUE ELSE FALSE

\* resume_recording / pause_recording, called only when the flag changes
recording_paused_after(paused, enabled, action) ==
    IF action = "start"
    THEN IF enabled THEN paused ELSE FALSE
    ELSE IF ~enabled THEN paused ELSE TRUE

\* number of recording_control messages when clients send them concurrently
MaxConcurrentControls == 2

\* _handle_recording_control up to its first send, for the limit-th request
\* at most
HandleControl(w, limit) ==
    /\ ws_state[w] = "open"
    /\ handler[w].pc = "idle"
    /\ controls < limit
    /\ \E action \in { "start", "stop" } :
        /\ recording_enabled' = handle_recording_control(recording_enabled, action)
        /\ recording_paused' = recording_paused_after(recording_paused,
                                                      recording_enabled, action)
        /\ handler' = [ handler EXCEPT ![w] = [ pc |-> "status", action |-> action ] ]
        /\ start_seen' = (start_seen \/ action = "start")
    /\ controls' = controls + 1
    /\ UNCHANGED << extVars, segVars, is_running, loop_pc, frames, bp_running, batch_queue,
                    dispVars, active_connections, ws_state, inbox, bcast >>

RecvRecordingControl(w) == HandleControl(w, MaxControls)

\* the status reply to the sender, then the recording_status broadcast begins
HandlerSendStatus(w) ==
    /\ handler[w].pc = "status"
    /\ IF ws_state[w] = "open"
       THEN /\ inbox' = [ inbox EXCEPT ![w] = Append(@, StatusMsg) ]
            /\ bcast' = [ bcast EXCEPT ![w] = StartBcast(RecordingStatusMsg(handler[w].action)) ]
            /\ handler' = [ handler EXCEPT ![w].pc =
                               IF active_connections = {} THEN "idle" ELSE "bcast" ]
       ELSE \* ConnectionClosed ends the handler
            /\ handler' = [ handler EXCEPT ![w] = [ pc |-> "idle", action |-> "" ] ]
            /\ UNCHANGED << inbox, bcast >>
    /\ UNCHANGED << extVars, segVars, loopVars, dispVars, recording_enabled, active_connections,
                    ws_state, controls, start_seen >>

(***************************************************************************)
(* Questions                                                               *)
(***************************************************************************)
\* number of inbound messages read so far (the question number of the next)
Inbounds == Len(received["w1"]) + Len(received["w2"])

\* handle_connection reads a message: _process_message up to the reply, or,
\* for a valid question, _handle_question and answer_question up to the await
\* of the LLM call (the user message is already in the history)
RecvMessage(w) ==
    /\ ws_state[w] = "open"
    /\ handler[w].pc = "idle"
    /\ Inbounds < MaxMessages
    /\ \E m \in InboundMessages :
        /\ received' = [ received EXCEPT ![w] = Append(@, m) ]
        /\ IF is_answered(m, session_state[w])
           THEN /\ conversation_history' =
                      [ conversation_history EXCEPT ![qa_handler_of(w)] =
                            Append(@, ChatMessage("user", Inbounds + 1)) ]
                /\ pending_request' =
                      [ pending_request EXCEPT ![w] =
                            Some([ q |-> Inbounds + 1,
                                   request_id |-> QARequest_request_id(m) ]) ]
                /\ handler' = [ handler EXCEPT ![w].pc = "llm" ]
                /\ UNCHANGED inbox
           ELSE /\ inbox' = [ inbox EXCEPT ![w] =
                                  @ \o process_message_replies(m, session_state[w]) ]
                /\ UNCHANGED << conversation_history, pending_request, handler >>
    /\ UNCHANGED << segVars, loopVars, dispVars, recording_enabled, active_connections,
                    ws_state, bcast, controls, start_seen, retryVars, dequeued,
                    session_state,
                    questions_pc, assistVars >>

\* client.generate_content returns or raises: the rest of answer_question and
\* of _handle_question, whose except clause turns the exception into the
\* text of an answer
LLMReturns(w) ==
    /\ handler[w].pc = "llm"
    /\ \E ok \in BOOLEAN :
        LET req == Val(pending_request[w])
        IN  /\ conversation_history' =
                  IF ok
                  THEN [ conversation_history EXCEPT ![qa_handler_of(w)] =
                           _prune_conversation_history(
                               Append(@, ChatMessage("assistant", req.q))) ]
                  ELSE conversation_history
            /\ inbox' = IF ws_state[w] = "open"
                        THEN [ inbox EXCEPT ![w] = @ \o _send_response(req.request_id) ]
                        ELSE inbox                     \* ConnectionClosed
    /\ pending_request' = [ pending_request EXCEPT ![w] = None ]
    /\ handler' = [ handler EXCEPT ![w].pc = "idle" ]
    /\ UNCHANGED << segVars, loopVars, dispVars, recording_enabled, active_connections,
                    ws_state, bcast, controls, start_seen, retryVars, dequeued,
                    received, session_state,
                    questions_pc, assistVars >>

(***************************************************************************)
(* Batches handed to the dispatcher: TranscriptionManager.transcribe_batch *)
(***************************************************************************)
\* number of batches handed to the dispatcher in one run
MaxSubmitted == 1

\* batches the dispatcher has been given so far
submitted ==
    Len(processing_queue) + (IF disp.batch # None THEN 1 ELSE 0)
      + Len(transcription_history) + Cardinality(failed)

SubmittedBatch(n) == _create_batch(<< 3, 3 >>, None, None, n, FALSE)

TranscribeBatch ==
    /\ is_processing
    /\ submitted < MaxSubmitted
    /\ processing_queue' = Append(processing_queue, SubmittedBatch(submitted))
    /\ UNCHANGED << extVars, segVars, loopVars, is_processing, transcription_history,
                    disp, attempts, failed, transcriptions, serverVars >>

(***************************************************************************)
(* LiveQAServer.contextual_questions_task                                  *)
(***************************************************************************)
\* number of generate_contextual_questions calls in one run
MaxRounds == 1

\* a sleep of the task ends: generate_contextual_questions up to its LLM call;
\* without context it returns the empty list, which is not broadcast
QuestionsWake(responses) ==
    /\ questions_pc = "sleep"
    /\ Len(last_questions) < MaxRounds
    /\ IF context_is_empty(transcriptions)
       THEN /\ last_questions' = Append(last_questions, <<>>)
            /\ UNCHANGED << questions_pc, llm_reply >>
       ELSE /\ questions_pc' = "llm"
            /\ \E reply \in LLMReplies(responses) : llm_reply' = Some(reply)
            /\ UNCHANGED last_questions
    /\ UNCHANGED << segVars, loopVars, dispVars, serverVars, retryVars, dequeued, qaVars,
                    insightVars, sessVars, kbVars, intentVars >>

\* client.generate_content returns or raises: the rest of
\* generate_contextual_questions, then broadcast_suggested_questions
QuestionsLLMReturns ==
    /\ questions_pc = "llm"
    /\ UNCHANGED llm_reply
    /\ LET questions == questions_from_llm(Val(llm_reply))
       IN  /\ last_questions' = Append(last_questions, questions)
           /\ IF questions # <<>>
              THEN /\ bcast' = [ bcast EXCEPT !["questions"] =
                                   StartBcast(SuggestedQuestionsMsg(Len(last_questions))) ]
                   /\ questions_pc' = IF active_connections = {} THEN "sleep" ELSE "bcast"
              ELSE /\ questions_pc' = "sleep"
                   /\ UNCHANGED bcast
    /\ UNCHANGED << segVars, loopVars, dispVars, recording_enabled, active_connections,
                    ws_state, inbox, handler, controls, start_seen, retryVars, dequeued,
                    qaVars, insightVars, sessVars, kbVars, intentVars >>

(***************************************************************************)
(* InsightGenerator.start_automated_insights                               *)
(***************************************************************************)
\* time passes, for an LLM call or up to the end of the generator's sleep
Elapse ==
    /\ now < MaxInsightTicks * TickMs
    /\ insight_pc = "sleep" => now < insight_wake_at
    /\ now' = now + TickMs
    /\ UNCHANGED << extVars, config, consumed, current_batch, batch_start_time, sequence_id,
                    previous_batch_audio, silence_start_time, emitted,
                    loopVars, dispVars, serverVars >>

\* asyncio.sleep(insight_interval_seconds) is over: with transcriptions in the
\* context store the kind is taken from the clock and the LLM is called
InsightWake ==
    /\ insight_pc = "sleep"
    /\ now >= insight_wake_at
    /\ IF transcriptions # <<>>
       THEN /\ insight_pc' = "llm"
            /\ insight_calls' = Append(insight_calls, [ kind |-> insight_kind(now),
                                                        at |-> now ])
            /\ UNCHANGED insight_wake_at
       ELSE /\ insight_wake_at' = now + insight_interval_ms
            /\ UNCHANGED << insight_pc, insight_calls >>
    /\ UNCHANGED << segVars, loopVars, dispVars, serverVars, retryVars, dequeued, qaVars,
                    questions_pc, suggestLog, insights, sessVars, kbVars, intentVars >>

\* generate_summary or generate_action_items returns or raises; an insight
\* goes to the callback, whose broadcast is a task of its own; then the loop
\* sleeps again
InsightLLMReturns ==
    /\ insight_pc = "llm"
    /\ bcast["insight"].msg = None
    /\ \E ok \in BOOLEAN :
        IF ok
        THEN /\ insights' = Append(insights,
                     [ kind |-> insight_calls[Len(insight_calls)].kind,
                       call |-> Len(insight_calls) ])
             /\ bcast' = [ bcast EXCEPT !["insight"] =
                             StartBcast(InsightMsg(Len(insights) + 1)) ]
             /\ insight_pc' = "sleep"
        ELSE /\ insight_pc' = insight_after_failure_pc
             /\ UNCHANGED << insights, bcast >>
    /\ insight_wake_at' = now + insight_interval_ms
    /\ UNCHANGED << segVars, loopVars, dispVars, recording_enabled, active_connections,
                    ws_state, inbox, handler, controls, start_seen, retryVars, dequeued,
                    qaVars, questions_pc, suggestLog, insight_calls, sessVars, kbVars, intentVars >>

(***************************************************************************)
(* SessionManager and QASession (live_qa.py)                               *)
(***************************************************************************)
\* SessionManager(): max_sessions 100, session_timeout 60 minutes;
\* QASession.max_history_length 50; scaled
max_sessions == 2
session_timeout == TickMs
max_history_length == 2

\* sessions created, Q&A pairs added and expiry sweeps in one run
MaxCreated == 3
MaxPairs == 3
MaxSweeps == 2

QASession(id, t) ==
    [ session_id |-> id, created_at |-> t, state |-> "connected", qa_history |-> <<>> ]

\* min(keys, key=created_at): the first of the sessions created earliest
oldest_index(table) ==
    CHOOSE i \in 1..Len(table) :
        /\ \A j \in 1..Len(table) : table[i].created_at <= table[j].created_at
        /\ \A j \in 1..(i - 1) : table[j].created_at # table[i].created_at

_remove_oldest_session(table) ==
    IF table = <<>> THEN table ELSE RemoveAt(table, oldest_index(table))

\* (variant: room is made only when the table is over its capacity)
create_session_over(table, id, t) ==
    Append(IF Len(table) > max_sessions THEN _remove_oldest_session(table) ELSE table,
           QASession(id, t))

create_session(table, id, t) ==
    Append(IF Len(table) >= max_sessions THEN _remove_oldest_session(table) ELSE table,
           QASession(id, t))

close_session(table, id) ==
    [ i \in 1..Len(table) |->
        IF table[i].session_id = id THEN [ table[i] EXCEPT !.state = "disconnected" ]
        ELSE table[i] ]

\* (variant: only sessions that are disconnected expire)
cleanup_expired_sessions_closed(table, t) ==
    LET cutoff_time == t - session_timeout
        expired(s) == s.created_at < cutoff_time /\ s.state = "disconnected"
    IN  SelectSeq(table, LAMBDA s : ~expired(s))

cleanup_expired_sessions(table, t) ==
    LET cutoff_time == t - session_timeout
        expired(s) == s.created_at < cutoff_time
    IN  SelectSeq(table, LAMBDA s : ~expired(s))

\* (variant: the oldest pairs are the ones kept)
add_qa_pair_first(history, pair) ==
    LET appended == Append(history, pair)
    IN  IF Len(appended) > max_history_length
        THEN PyPrefix(appended, max_history_length) ELSE appended

add_qa_pair(history, pair) ==
    LET appended == Append(history, pair)
    IN  IF Len(appended) > max_history_length
        THEN PySuffix(appended, max_history_length) ELSE appended

\* handle_connection allocates the connection's session
CreateSession ==
    /\ next_session_id < MaxCreated
    /\ sessions' = create_session(sessions, next_session_id, now)
    /\ next_session_id' = next_session_id + 1
    /\ UNCHANGED << segVars, loopVars, dispVars, serverVars, retryVars, dequeued, qaVars,
                    questions_pc, suggestLog, insightVars, qa_pairs, sweeps,
                    kbVars, intentVars >>

\* the finally clause of handle_connection, for a session that may be gone
CloseSession ==
    /\ \E id \in 0..(next_session_id - 1) :
        /\ \E i \in 1..Len(sessions) :
              sessions[i].session_id = id /\ sessions[i].state = "connected"
        /\ sessions' = close_session(sessions, id)
    /\ UNCHANGED << segVars, loopVars, dispVars, serverVars, retryVars, dequeued, qaVars,
                    questions_pc, suggestLog, insightVars, next_session_id, qa_pairs,
                    sweeps,
                    kbVars, intentVars >>

\* _handle_question records the answered question in the session's history
AddQaPair ==
    /\ qa_pairs < MaxPairs
    /\ \E i \in 1..Len(sessions) :
        sessions' = [ sessions EXCEPT ![i].qa_history = add_qa_pair(@, qa_pairs) ]
    /\ qa_pairs' = qa_pairs + 1
    /\ UNCHANGED << segVars, loopVars, dispVars, serverVars, retryVars, dequeued, qaVars,
                    questions_pc, suggestLog, insightVars, next_session_id, sweeps,
                    kbVars, intentVars >>

\* one round of cleanup_task
Sweep ==
    /\ sweeps < MaxSweeps
    /\ sessions' = cleanup_expired_sessions(sessions, now)
    /\ sweeps' = sweeps + 1
    /\ UNCHANGED << segVars, loopVars, dispVars, serverVars, retryVars, dequeued, qaVars,
                    questions_pc, suggestLog, insightVars, next_session_id, qa_pairs,
                    kbVars, intentVars >>

LoopNext(source) ==
    LoopCheck \/ LoopWake \/ ChunkArrives(source) \/ ChunkTimeout \/ AfterTimeout

BcastNext == \E b \in Broadcasters : BcastRaise(b) \/ BcastSend(b) \/ BcastEnd(b)

ConnNext == \E w \in WebSockets : Connect(w) \/ ClientClose(w) \/ HandlerCleanup(w)

AppStart == Init /\ config = DefaultConfig

(***************************************************************************)
(* The pipeline: audio loop, dispatcher, context store, transcript fan-out *)
(***************************************************************************)
PipeNext == LoopNext(PipeChunks) \/ DispatcherGet \/ ModelAttempt \/ BcastNext \/ ConnNext

SpecPipe == AppStart /\ [][PipeNext]_vars

(***************************************************************************)
(* The audio loop as a task that is always scheduled again: every await of *)
(* the loop ends (a sleep is over; wait_for returns the frame or times out *)
(* after 0.1 s), so the loop always takes its next step.  Frames may come  *)
(* back to back, with no timeout between them, until the source runs dry.  *)
(***************************************************************************)
FlowNext == LoopNext(PipeChunks) \/ DispatcherGet \/ ModelAttempt

SpecFlow == AppStart /\ [][FlowNext]_vars /\ WF_vars(LoopNext(PipeChunks))

(***************************************************************************)
(* The knowledge base: documents added, updated and removed while the      *)
(* clock goes on; datetime.now() may give the same reading to two calls    *)
(***************************************************************************)
KbAdd(contents, limit) ==
    /\ kb_ops < MaxKbOps
    /\ Len(documents) < limit
    /\ \E content \in contents :
        documents' = add_document(documents, next_doc_id, content, kb_now)
    /\ next_doc_id' = next_doc_id + 1
    /\ kb_ops' = kb_ops + 1
    /\ UNCHANGED << segVars, loopVars, dispVars, serverVars, retryVars, dequeued, qaVars,
                    questions_pc, suggestLog, insightVars, sessVars, kb_now, intentVars >>

KbUpdate(contents) ==
    /\ kb_ops < MaxKbOps
    /\ \E id \in DocIds(documents), content \in contents :
        documents' = update_document(documents, id, content, kb_now)
    /\ kb_ops' = kb_ops + 1
    /\ UNCHANGED << segVars, loopVars, dispVars, serverVars, retryVars, dequeued, qaVars,
                    questions_pc, suggestLog, insightVars, sessVars, next_doc_id, kb_now,
                    intentVars >>

KbRemove ==
    /\ kb_ops < MaxKbOps
    /\ \E id \in DocIds(documents) :
        documents' = remove_document(documents, id)
    /\ kb_ops' = kb_ops + 1
    /\ UNCHANGED << segVars, loopVars, dispVars, serverVars, retryVars, dequeued, qaVars,
                    questions_pc, suggestLog, insightVars, sessVars, next_doc_id, kb_now,
                    intentVars >>

KbClock ==
    /\ kb_now < MaxKbClock
    /\ kb_now' = kb_now + 1
    /\ UNCHANGED << segVars, loopVars, dispVars, serverVars, retryVars, dequeued, qaVars,
                    questions_pc, suggestLog, insightVars, sessVars, documents,
                    next_doc_id, kb_ops, intentVars >>

KbNext == KbAdd(KbContents, MaxDocs) \/ KbUpdate(KbContents) \/ KbRemove \/ KbClock

SpecKb == AppStart /\ [][KbNext]_vars

(***************************************************************************)
(* Titles: one document at a time, of any content                          *)
(***************************************************************************)
TitleNext == KbAdd(TitleContents, 1) \/ KbUpdate(TitleContents) \/ KbRemove \/ KbClock

SpecTitle == AppStart /\ [][TitleNext]_vars

(***************************************************************************)
(* Session intent: clients set it, the sync loop and the questions task    *)
(* copy it, the generators and the Q&A handler build prompts               *)
(***************************************************************************)
\* _process_message for an intent message: _handle_intent
HandleIntent(w) ==
    /\ ws_state[w] = "open"
    /\ handler[w].pc = "idle"
    /\ Len(intents_received) < MaxIntents
    /\ \E content \in IntentContents :
        LET intent == py_strip(content)
        IN  /\ current_intent' = intent
            /\ session_intent' = [ session_intent EXCEPT !["qa_handler"] = intent ]
            /\ intents_received' = Append(intents_received, intent)
    /\ inbox' = [ inbox EXCEPT ![w] = Append(@, StatusMsg) ]
    /\ UNCHANGED << segVars, loopVars, dispVars, recording_enabled, active_connections,
                    ws_state, bcast, handler, controls, start_seen, retryVars, dequeued,
                    qaVars, questions_pc, suggestLog, insightVars, sessVars, kbVars,
                    prompts >>

\* one round of _intent_sync_loop
IntentSync ==
    /\ session_intent["insight_generator"] # current_intent
    /\ session_intent' = [ session_intent EXCEPT !["insight_generator"] = current_intent ]
    /\ UNCHANGED << segVars, loopVars, dispVars, serverVars, retryVars, dequeued, qaVars,
                    questions_pc, suggestLog, insightVars, sessVars, kbVars,
                    current_intent, intents_received, prompts >>

\* answer_question: _build_qa_prompt
BuildQaPrompt ==
    /\ Len(prompts) < MaxPrompts
    /\ prompts' = Append(prompts,
                         Prompt("answer", focus_of_qa_prompt(session_intent["qa_handler"])))
    /\ UNCHANGED << segVars, loopVars, dispVars, serverVars, retryVars, dequeued, qaVars,
                    questions_pc, suggestLog, insightVars, sessVars, kbVars,
                    current_intent, session_intent, intents_received >>

\* contextual_questions_task: the Q&A handler is given the server's intent,
\* then generate_contextual_questions builds its prompt
BuildQuestionsPrompt ==
    /\ Len(prompts) < MaxPrompts
    /\ session_intent' = [ session_intent EXCEPT !["qa_handler"] = current_intent ]
    /\ prompts' = Append(prompts, Prompt("questions", focus_of_intent(current_intent)))
    /\ UNCHANGED << segVars, loopVars, dispVars, serverVars, retryVars, dequeued, qaVars,
                    questions_pc, suggestLog, insightVars, sessVars, kbVars,
                    current_intent, intents_received >>

\* generate_summary and generate_action_items: the prompt of an insight
BuildInsightPrompt ==
    /\ Len(prompts) < MaxPrompts
    /\ prompts' = Append(prompts,
                         Prompt("insight",
                                focus_of_intent(session_intent["insight_generator"])))
    /\ UNCHANGED << segVars, loopVars, dispVars, serverVars, retryVars, dequeued, qaVars,
                    questions_pc, suggestLog, insightVars, sessVars, kbVars,
                    current_intent, session_intent, intents_received >>

IntentNext ==
    \/ ConnNext
    \/ \E w \in WebSockets : HandleIntent(w)
    \/ IntentSync \/ BuildQaPrompt \/ BuildQuestionsPrompt \/ BuildInsightPrompt

SpecIntent == AppStart /\ [][IntentNext]_vars

(***************************************************************************)
(* Recording control: audio loop, clients toggling the recording flag      *)
(***************************************************************************)
RecNext ==
    \/ LoopNext(RecChunks) \/ BcastNext \/ ConnNext
    \/ \E w \in WebSockets : RecvRecordingControl(w) \/ HandlerSendStatus(w)

SpecRec == AppStart /\ [][RecNext]_vars

(***************************************************************************)
(* Recording control by several clients at once, the audio loop left out   *)
(***************************************************************************)
CtlNext ==
    \/ BcastNext \/ ConnNext
    \/ \E w \in WebSockets : HandleControl(w, MaxConcurrentControls) \/ HandlerSendStatus(w)

SpecCtl == AppStart /\ [][CtlNext]_vars

(***************************************************************************)
(* Q&A: clients connecting, sending messages and asking questions          *)
(***************************************************************************)
QANext == ConnNext \/ \E w \in WebSockets : RecvMessage(w) \/ LLMReturns(w)

SpecQA == AppStart /\ [][QANext]_vars

(***************************************************************************)
(* Fan-out: transcripts and suggested questions broadcast to the clients   *)
(***************************************************************************)
\* the LLM answers with four questions
CastResponses == { [ i \in 1..4 |-> << "1", " ", "a", "?" >> ] }

CastNext ==
    \/ TranscribeBatch \/ DispatcherGet \/ ModelAttempt
    \/ QuestionsWake(CastResponses) \/ QuestionsLLMReturns
    \/ BcastNext \/ ConnNext

SpecCast == AppStart /\ [][CastNext]_vars

(***************************************************************************)
(* Suggested questions: the dispatcher fills the context store, the task   *)
(* asks the LLM for questions whatever the LLM answers                     *)
(***************************************************************************)
SuggestNext ==
    \/ TranscribeBatch \/ DispatcherGet \/ ModelAttempt
    \/ QuestionsWake(Responses) \/ QuestionsLLMReturns

SpecSuggest == AppStart /\ [][SuggestNext]_vars

(***************************************************************************)
(* Automated insights: the dispatcher fills the context store, the         *)
(* generator wakes every interval                                          *)
(***************************************************************************)
InsightNext ==
    \/ TranscribeBatch \/ DispatcherGet \/ ModelAttempt
    \/ Elapse \/ InsightWake \/ InsightLLMReturns

SpecInsight == AppStart /\ [][InsightNext]_vars

(***************************************************************************)
(* The session table: sessions created, closed, used and swept over time   *)
(***************************************************************************)
SessNext == CreateSession \/ CloseSession \/ AddQaPair \/ Sweep \/ Tick

SpecSess == AppStart /\ [][SessNext]_vars

(***************************************************************************)
(* Shutdown: audio loop, dispatcher and stop()                             *)
(***************************************************************************)
\* frames of the run: some fill a batch, some leave samples pending
StopChunks == PipeChunks \cup RecChunks

StopNext == LoopNext(StopChunks) \/ DispatcherGet \/ ModelAttempt \/ Stop \/ CancelTasks

SpecStop == AppStart /\ [][StopNext]_vars

(***************************************************************************)
(* Retries: audio loop and the dispatcher request by request, for every    *)
(* configured max_retries                                                  *)
(***************************************************************************)
RetryStart ==
    /\ SegInit /\ config = DefaultConfig
    /\ AppInit
    /\ transcription_config \in TranscriptionConfigs

RetryNext == LoopNext(PipeChunks) \/ DispatcherGet \/ ClientCall \/ Request

SpecRetry == RetryStart /\ [][RetryNext]_vars

(***************************************************************************)
(* Properties of the segmenter (SpecSeg)                                   *)
(***************************************************************************)
\* C1: the k-th batch a segmenter emits (k = 0, 1, 2, ...) carries
\* sequence_id = k, whichever rule or force_batch emitted it: ids start at 0
\* and grow by exactly one per emitted batch, without gap or repeat.
C1_SequenceIdsGapFree ==
    \A k \in 1..Len(emitted) : emitted[k].sequence_id = k - 1

C1_Witness ==
    /\ Len(emitted) >= 3
    /\ \E i, j \in 1..Len(emitted) : emitted[i].forced /\ ~emitted[j].forced

\* n = overlap_duration * sample_rate, in samples
C4_n == (config.overlap_duration * config.sample_rate) \div 1000

\* C4 (as stated): for consecutive batches B_k, B_k+1 and n > 0, the first n
\* samples of B_k+1 are the last n samples of B_k, whatever the length of a
\* force-flushed batch.
C4_OverlapAsStated ==
    \A k \in 1..(Len(emitted) - 1) :
        LET prev == emitted[k].audio_data
            next == emitted[k + 1].audio_data
        IN  C4_n > 0 =>
                /\ Len(prev) >= C4_n
                /\ Len(next) >= C4_n
                /\ SubSeq(next, 1, C4_n) = SubSeq(prev, Len(prev) - C4_n + 1, Len(prev))

\* C4 (amended): for consecutive batches B_k, B_k+1 and n > 0, B_k+1 begins
\* with the last min(n, |B_k|) samples of B_k: the last n samples when B_k
\* holds at least n, the whole of B_k when a forced flush left it shorter.
C4_OverlapAmended ==
    \A k \in 1..(Len(emitted) - 1) :
        LET prev == emitted[k].audio_data
            next == emitted[k + 1].audio_data
            m    == IF Len(prev) < C4_n THEN Len(prev) ELSE C4_n
        IN  C4_n > 0 =>
                /\ Len(next) >= m
                /\ SubSeq(next, 1, m) = SubSeq(prev, Len(prev) - m + 1, Len(prev))

C4_Witness ==
    /\ C4_n = 2
    /\ \E k \in 1..(Len(emitted) - 1) :
          LET prev == emitted[k].audio_data
          IN  /\ emitted[k].forced
              /\ Len(prev) >= 3
              /\ prev[Len(prev)] # prev[Len(prev) - 1]
              /\ prev[1] # prev[Len(prev) - 1]

\* C5: every batch add_audio_chunk returns has a duration between
\* min_batch_duration and max_batch_duration, for any chunk sizes and overlap.
C5_DurationWithinBounds ==
    \A k \in 1..Len(emitted) :
        ~emitted[k].forced =>
            /\ config.min_batch_duration * 1000 <= emitted[k].duration
            /\ emitted[k].duration <= config.max_batch_duration * 1000

\* C6: a batch replays at most overlap_duration * sample_rate samples of the
\* batch before it, for every overlap_duration >= 0 (none when it is 0), and
\* the first batch replays nothing.
C6_ReplayBounded ==
    \A k \in 1..Len(emitted) :
        LET replayed == Len(emitted[k].audio_data) - emitted[k].fresh
        IN  /\ replayed <= C4_n
            /\ (k = 1 => replayed = 0)

\* C15: a force-flush of a non-empty pending buffer emits exactly one batch,
\* which holds the pending samples whatever their duration, is marked final
\* and leaves the pending buffer empty; on an empty pending buffer it emits
\* nothing and consumes no sequence number.
C15_ForceBatchFinal ==
    /\ [](\A k \in 1..Len(emitted) : emitted[k].forced => emitted[k].is_final)
    /\ [][ (emitted' # emitted /\ emitted'[Len(emitted')].forced) =>
              /\ Len(emitted') = Len(emitted) + 1
              /\ current_batch # <<>>
              /\ PySuffix(emitted'[Len(emitted')].audio_data, Len(current_batch))
                     = current_batch
              /\ current_batch' = <<>> ]_vars
    /\ [][ (current_batch = <<>> /\ consumed' = consumed) =>
              (emitted' = emitted /\ sequence_id' = sequence_id) ]_vars

(***************************************************************************)
(* Properties of the pipeline (SpecPipe)                                   *)
(***************************************************************************)
BatchIds(results) == [ i \in 1..Len(results) |-> results[i].batch_id ]

\* C2: segments reach the context store, and every session, in strictly
\* increasing batch sequence number.
C2_DeliveryInSequenceOrder ==
    /\ StrictlyIncreasing(BatchIds(transcriptions))
    /\ \A w \in WebSockets : StrictlyIncreasing(SelectIds(inbox[w], "transcript"))

C2_Witness ==
    /\ Len(transcriptions) >= 2
    /\ \E w \in WebSockets : Len(SelectIds(inbox[w], "transcript")) >= 2

\* C3: no session holds a transcript message of a segment that is not yet in
\* the context store.
C3_StoredBeforeSent ==
    \A w \in WebSockets :
        \A id \in Range(SelectIds(inbox[w], "transcript")) :
            id \in Range(BatchIds(transcriptions))

C3_Witness ==
    /\ bcast["disp"].msg # None
    /\ \E w \in WebSockets : SelectIds(inbox[w], "transcript") # <<>>
    /\ \E w \in WebSockets : ws_state[w] = "open" /\ w \notin bcast["disp"].visited

DeliveredIds ==
    Range(BatchIds(transcription_history)) \cup Range(BatchIds(transcriptions))
        \cup UNION { Range(SelectIds(inbox[w], "transcript")) : w \in WebSockets }

\* C9: a batch every model failed for yields no segment (nothing in the
\* transcription history, the context store or any session), and the step that
\* gives it up leaves the dispatcher running at its queue with the queued
\* batches intact.
C9_FailedBatchDropped ==
    /\ [](failed \cap DeliveredIds = {})
    /\ [][ failed' # failed =>
              /\ disp'.pc = "wait"
              /\ is_processing'
              /\ UNCHANGED << processing_queue, transcription_history,
                              transcriptions, inbox >> ]_vars

C9_Witness ==
    \E f \in failed :
        /\ \E id \in Range(BatchIds(transcriptions)) : id > f
        /\ \E w \in WebSockets :
              \E id \in Range(SelectIds(inbox[w], "transcript")) : id > f

\* the calls made for one batch, in call order
RECURSIVE AttemptsOf(_, _)
AttemptsOf(log, id) ==
    IF log = <<>> THEN <<>>
    ELSE IF Head(log).batch_id = id THEN << Head(log) >> \o AttemptsOf(Tail(log), id)
    ELSE AttemptsOf(Tail(log), id)

C10_Order == << TranscriptionConfig.transcription_model >> \o TranscriptionConfig.model_fallback

\* C10: for each batch the models are called in the order primary, then the
\* fallback list; a model is called only after every model before it failed,
\* none is called after a success, and the result is that of the first success.
C10_FallbackOrder ==
    \A id \in { a.batch_id : a \in Range(attempts) } :
        LET calls == AttemptsOf(attempts, id)
        IN  /\ Len(calls) <= Len(C10_Order)
            /\ \A i \in 1..Len(calls) :
                  /\ calls[i].model = C10_Order[i]
                  /\ (i < Len(calls) => ~calls[i].ok)
            /\ \A r \in Range(transcription_history) :
                  r.batch_id = id =>
                      /\ calls[Len(calls)].ok
                      /\ r.model = calls[Len(calls)].model

C10_Witness ==
    /\ \E r \in Range(transcription_history) :
          /\ r.model = "whisper-1"
          /\ Len(AttemptsOf(attempts, r.batch_id)) = 2
    /\ \E r \in Range(transcription_history) :
          /\ r.model = "gpt-4o-transcribe"
          /\ Len(AttemptsOf(attempts, r.batch_id)) = 1

\* C13: the batch queue never holds more than max_size batches; a put on a
\* full queue drops exactly the oldest batch and appends the new one (a put on
\* a queue with room just appends); get returns the oldest batch and removes
\* it; so the dequeued sequence ids are strictly increasing, drops included.
C13_QueueBoundedFifo ==
    /\ [](Len(batch_queue) <= MaxQueue)
    /\ [](StrictlyIncreasing(dequeued))
    /\ [][ emitted' # emitted =>
              LET b == emitted'[Len(emitted')]
                  kept == IF Len(batch_queue) >= MaxQueue THEN Tail(batch_queue)
                          ELSE batch_queue
              IN  /\ Len(batch_queue') = Len(kept) + 1
                  /\ SubSeq(batch_queue', 1, Len(kept)) = kept
                  /\ batch_queue'[Len(batch_queue')] = b ]_vars
    /\ [][ dequeued' # dequeued =>
              /\ batch_queue # <<>>
              /\ dequeued' = Append(dequeued, Head(batch_queue).sequence_id)
              /\ batch_queue' = Tail(batch_queue) ]_vars

C13_Witness ==
    /\ Len(dequeued) >= 2
    /\ \E k \in 1..Len(emitted) :
          /\ emitted[k].sequence_id < dequeued[1]
          /\ emitted[k].sequence_id \notin Range(dequeued)

(***************************************************************************)
(* Properties of recording control (SpecRec)                               *)
(***************************************************************************)
\* C7: recording is off at process start (recording_enabled false,
\* recording_paused true) and stays off until a client sends start.
C7_RecordingOffUntilStart ==
    ~start_seen => (recording_enabled = FALSE /\ recording_paused = TRUE)

\* C8: while recording is disabled no step changes the segmenter (pending
\* buffer, batch start, sequence counter), emits or queues a batch, or hands
\* one to the dispatcher.
C8_DisabledFramesIgnored ==
    [][ ~recording_enabled =>
           UNCHANGED << current_batch, batch_start_time, sequence_id, emitted,
                        batch_queue, processing_queue >> ]_vars

(***************************************************************************)
(* Properties of the retries (SpecRetry)                                   *)
(***************************************************************************)
\* number of API requests made for one batch to one model
RECURSIVE CountRequests(_, _, _)
CountRequests(log, id, model) ==
    IF log = <<>> THEN 0
    ELSE (IF Head(log).batch_id = id /\ Head(log).model = model THEN 1 ELSE 0)
         + CountRequests(Tail(log), id, model)

\* the dispatcher gave up on the model for the batch and fell through
FellThrough(id, model) ==
    [ batch_id |-> id, model |-> model, ok |-> FALSE ] \in Range(attempts)

\* C11: for one batch and one model the failing request is retried at most
\* the configured max_retries times (at most max_retries + 1 requests), and the
\* dispatcher falls through to the next model only once the configured retries
\* are used up (at least max_retries requests made, whichever way the first
\* request is counted).
C11_RetriesAsConfigured ==
    \A r \in Range(requests) :
        LET n == CountRequests(requests, r.batch_id, r.model)
        IN  /\ n <= client_max_retries(transcription_config, r.model) + 1
            /\ FellThrough(r.batch_id, r.model) =>
                   n >= client_max_retries(transcription_config, r.model)

C12_Primary == TranscriptionConfig.transcription_model
C12_Fallback == TranscriptionConfig.model_fallback[1]

\* C12: when the only requests made are a failed and then a successful request
\* of the primary model for one batch, one segment exists, it is the primary
\* model's, the primary client's statistics read total_requests = 2 and
\* successful_requests = 1, and the fallback client has seen no request.
C12_RetryThenSuccessStats ==
    ( /\ Len(requests) = 2
      /\ requests[1] = [ batch_id |-> 0, model |-> C12_Primary, ok |-> FALSE ]
      /\ requests[2] = [ batch_id |-> 0, model |-> C12_Primary, ok |-> TRUE ] )
    => /\ Len(transcription_history) = 1
       /\ transcription_history[1].batch_id = 0
       /\ transcription_history[1].model = C12_Primary
       /\ stats[C12_Primary].total_requests = 2
       /\ stats[C12_Primary].successful_requests = 1
       /\ stats[C12_Fallback].total_requests = 0

(***************************************************************************)
(* Properties of shutdown (SpecStop)                                       *)
(***************************************************************************)
\* C14: once the application has shut down (stop() done, audio loop ended,
\* dispatcher idle) the pending buffer is empty, no batch is left on the batch
\* queue or the dispatcher's queue, and every force-flushed final batch has
\* been handed to the dispatcher and transcribed.
C14_ShutdownDrains ==
    ( ~is_running /\ loop_pc = "done" /\ disp.pc = "wait" ) =>
        /\ current_batch = <<>>
        /\ batch_queue = <<>>
        /\ processing_queue = <<>>
        /\ \A k \in 1..Len(emitted) :
              emitted[k].forced =>
                  emitted[k].sequence_id \in Range(BatchIds(transcriptions)) \cup failed

(***************************************************************************)
(* Properties of Q&A (SpecQA)                                              *)
(***************************************************************************)
\* C16: the chat history never holds more than max_conversation_length
\* messages, in any reachable state: between the steps of an answer, with
\* several questions in flight, and after a failed LLM call.
C16_HistoryBounded ==
    \A h \in QAHandlers :
        Len(conversation_history[h]) <= GeminiConfig.max_conversation_length

\* the chat history that serves a client
ClientHistory(w) == conversation_history[qa_handler_of(w)]

\* a step of the handling of a question of client w
QuestionStep(w) ==
    \/ handler[w].pc = "idle" /\ handler'[w].pc = "llm"
    \/ handler[w].pc = "llm" /\ handler'[w].pc = "idle"

\* C17: a question asked by one client adds nothing to, and removes nothing
\* from, the chat history kept for any other connected client.
C17_HistoryPerClient ==
    [][ \A w \in WebSockets :
          QuestionStep(w) =>
              \A v \in WebSockets \ { w } :
                  session_state[v] = "connected" =>
                      ClientHistory(v)' = ClientHistory(v) ]_vars

\* the messages a step adds to the inbox of w
NewMessages(w) == SubSeq(inbox'[w], Len(inbox[w]) + 1, Len(inbox'[w]))

\* the LLM call of the question of w ends by raising: the handler leaves the
\* call and the history has no new assistant message
LLMFailed(w) ==
    /\ handler[w].pc = "llm" /\ handler'[w].pc = "idle"
    /\ UNCHANGED conversation_history

\* C18: when the LLM call of a question fails, the client that asked gets one
\* message of type error carrying the question's request_id, and its
\* connection stays open.
C18_LLMFailureIsError ==
    [][ \A w \in WebSockets :
          (LLMFailed(w) /\ ws_state[w] = "open") =>
              /\ Len(NewMessages(w)) = 1
              /\ NewMessages(w)[1].type = "error"
              /\ NewMessages(w)[1].request_id = Val(pending_request[w]).request_id
              /\ ws_state'[w] = "open" ]_vars

\* C19: every response sent for an inbound message that carried a request_id
\* carries that request_id: answers, and errors for unknown types and for
\* absent or empty required fields.
C19_RequestIdEchoed ==
    [][ \A w \in WebSockets :
          (received'[w] # received[w] \/ handler[w].pc = "llm") =>
              LET m == received'[w][Len(received'[w])]
              IN  m.request_id # None =>
                      \A i \in 1..Len(NewMessages(w)) :
                          NewMessages(w)[i].request_id = m.request_id ]_vars

\* number of messages of a type in an inbox
RECURSIVE CountType(_, _)
CountType(box, type) ==
    IF box = <<>> THEN 0
    ELSE (IF Head(box).type = type THEN 1 ELSE 0) + CountType(Tail(box), type)

\* number of inbound messages that are answered (valid questions) or rejected
RECURSIVE CountAnswered(_, _)
CountAnswered(log, answered) ==
    IF log = <<>> THEN 0
    ELSE (IF is_answered(Head(log), "connected") = answered THEN 1 ELSE 0)
         + CountAnswered(Tail(log), answered)

\* C20: an inbound message with an unknown type, malformed JSON or failing
\* validation makes the server send exactly one error message to that client
\* and change nothing else: the connection stays open, the session connected,
\* the handler ready for the next message; and on an open connection every
\* rejected message has its one error and every valid question, before or
\* after a rejected message, its one answer once its LLM call is over.
C20_InvalidMessageOneError ==
    /\ [][ \A w \in WebSockets :
              ( /\ received'[w] # received[w]
                /\ ~is_answered(received'[w][Len(received'[w])], session_state[w]) ) =>
                  /\ Len(NewMessages(w)) = 1
                  /\ NewMessages(w)[1].type = "error"
                  /\ \A v \in WebSockets \ { w } : inbox'[v] = inbox[v]
                  /\ ws_state'[w] = "open"
                  /\ session_state'[w] = "connected"
                  /\ handler'[w].pc = "idle"
                  /\ UNCHANGED << active_connections, conversation_history,
                                  pending_request >> ]_vars
    /\ [](\A w \in WebSockets :
              ws_state[w] = "open" =>
                  /\ CountType(inbox[w], "error") = CountAnswered(received[w], FALSE)
                  /\ CountType(inbox[w], "answer") =
                         CountAnswered(received[w], TRUE)
                             - (IF handler[w].pc = "llm" THEN 1 ELSE 0))

C20_Witness ==
    \E w \in WebSockets :
        /\ ws_state[w] = "open"
        /\ Len(received[w]) = 3
        /\ received[w][1].kind = "malformed"
        /\ received[w][2].kind = "unknown_type"
        /\ received[w][3].kind = "question"
        /\ CountType(inbox[w], "error") = 2
        /\ inbox[w][Len(inbox[w])].type = "answer"

(***************************************************************************)
(* Broadcasts                                                              *)
(***************************************************************************)
\* C21: when a broadcast during which a send failed comes to its end, it ends
\* without raising, the active set has lost exactly the sessions whose send
\* failed, and every session left in it that is connected was sent the message
C21_SendFailureIsolated ==
    [][ \A b \in Broadcasters :
          ( bcast[b].msg # None /\ bcast[b].disconnected # {} /\ bcast'[b].msg = None )
          => /\ Cardinality(active_connections) = bcast[b].size
             /\ active_connections' = active_connections \ bcast[b].disconnected
             /\ \A w \in active_connections' :
                   ws_state[w] = "open" =>
                       \E i \in 1..Len(inbox[w]) : inbox[w][i] = Val(bcast[b].msg) ]_vars

\* the messages that are broadcast
BroadcastTypes == { "transcript", "insight", "suggested_questions", "recording_status" }

\* C22: two connected sessions that both received the same two broadcast
\* messages received them in the same order
C22_SameOrderEverywhere ==
    \A w, v \in WebSockets :
        ( ws_state[w] = "open" /\ ws_state[v] = "open" ) =>
        \A i, j \in 1..Len(inbox[w]) : \A k, l \in 1..Len(inbox[v]) :
            ( /\ i < j
              /\ inbox[w][i].type \in BroadcastTypes
              /\ inbox[w][j].type \in BroadcastTypes
              /\ inbox[w][i] # inbox[w][j]
              /\ inbox[v][k] = inbox[w][i]
              /\ inbox[v][l] = inbox[w][j] )
            => k < l

(***************************************************************************)
(* The session table                                                       *)
(***************************************************************************)
SessionIds(table) == { table[i].session_id : i \in 1..Len(table) }

\* C23: the table never holds more than max_sessions sessions; a session
\* created when the table is at capacity evicts exactly one session, one
\* that no session of the table is older than, and the new session is in
\* the table afterwards
C23_TableBounded ==
    [][ /\ Len(sessions') <= max_sessions
        /\ next_session_id' = next_session_id + 1 =>
             /\ next_session_id \in SessionIds(sessions')
             /\ Len(sessions) >= max_sessions =>
                  LET evicted == SessionIds(sessions) \ SessionIds(sessions')
                  IN  /\ Cardinality(evicted) = 1
                      /\ \A i, j \in 1..Len(sessions) :
                            sessions[i].session_id \in evicted
                            => sessions[i].created_at <= sessions[j].created_at ]_vars

\* three sessions were created and none swept: the first one made room for
\* the third, the second, created later than the first, is still there
C23_Witness ==
    /\ sweeps = 0
    /\ next_session_id = 3
    /\ SessionIds(sessions) = { 1, 2 }
    /\ sessions[1].created_at = TickMs

\* C24: a sweep removes exactly the sessions created more than
\* session_timeout before the time of the sweep, whatever their state and
\* history, and leaves the others as they are, in their order
C24_SweepRemovesExpired ==
    [][ sweeps' = sweeps + 1 =>
          LET expired(s) == s.created_at < now - session_timeout
              kept == { i \in 1..Len(sessions) : ~expired(sessions[i]) }
          IN  /\ \A i \in 1..Len(sessions) :
                    expired(sessions[i])
                    => sessions[i].session_id \notin SessionIds(sessions')
              /\ Len(sessions') = Cardinality(kept)
              /\ \A i \in kept :
                    sessions'[Cardinality({ j \in kept : j <= i })] = sessions[i] ]_vars

\* the one sweep removed the first session, still connected, and left the
\* second, which was not older than session_timeout
C24_Witness ==
    /\ sweeps = 1
    /\ next_session_id = 2
    /\ SessionIds(sessions) = { 1 }
    /\ sessions[1].created_at = TickMs
    /\ now = 2 * TickMs

\* C26: after a pair is added, no history holds more than max_history_length
\* pairs, and the history added to is the end of the old history followed by
\* the new pair: the most recent pairs, in their order
C26_HistoryCapped ==
    [][ qa_pairs' = qa_pairs + 1 =>
          /\ \A i \in 1..Len(sessions') :
                Len(sessions'[i].qa_history) <= max_history_length
          /\ \E i \in 1..Len(sessions) :
                LET all == Append(sessions[i].qa_history, qa_pairs)
                    new == sessions'[i].qa_history
                    n == IF Len(all) < max_history_length THEN Len(all)
                         ELSE max_history_length
                IN  /\ Len(new) = n
                    /\ new = SubSeq(all, Len(all) - n + 1, Len(all))
                    /\ \A j \in 1..Len(sessions) : j # i => sessions'[j] = sessions[j] ]_vars

\* a third pair was added to the full history of the only session
C26_Witness ==
    /\ next_session_id = 1
    /\ qa_pairs = 3
    /\ Len(sessions) = 1
    /\ sessions[1].qa_history = << 1, 2 >>

FourQuestions(r) ==
    /\ Len(r) = 4
    /\ \A i \in 1..Len(r) : r[i] # <<>> /\ has_question_mark(r[i])

C28_StatusSentToAll ==
    [][ \A w \in WebSockets :
          ( handler[w].pc \in { "status", "bcast" } /\ handler'[w].pc = "idle" )
          => /\ recording_enabled' = (handler[w].action = "start")
             /\ \A v \in active_connections' :
                   ws_state'[v] = "open" =>
                     \E i \in 1..Len(inbox'[v]) :
                         inbox'[v][i] = RecordingStatusMsg(handler[w].action) ]_vars

(***************************************************************************)
(* Automated insights                                                      *)
(***************************************************************************)
\* C29: of two insights generated one after the other, one is a summary and
\* the other is not
C29_KindsAlternate ==
    \A i \in 1..(Len(insights) - 1) : insights[i].kind # insights[i + 1].kind

\* the LLM call of a tick raised
InsightFailed ==
    insight_pc = "llm" /\ insight_pc' # "llm" /\ Len(insights') = Len(insights)

\* C30: a tick whose LLM call raises hands no insight to the callbacks and
\* makes no second call; the generator goes to sleep for one interval, and
\* no call is made before a sleep is over
C30_FailedTickSkipped ==
    [][ /\ InsightFailed =>
             /\ insights' = insights
             /\ bcast' = bcast
             /\ insight_calls' = insight_calls
             /\ insight_pc' = "sleep"
             /\ insight_wake_at' = now + insight_interval_ms
        /\ Len(insight_calls') > Len(insight_calls) =>
             /\ now >= insight_wake_at
             /\ Len(insight_calls') = Len(insight_calls) + 1 ]_vars

\* the first tick's call raised; the second tick, at least one interval
\* later, generated the first insight
C30_Witness ==
    /\ Len(insight_calls) = 2
    /\ Len(insights) = 1
    /\ insights[1].call = 2
    /\ insight_calls[2].at >= insight_calls[1].at + insight_interval_ms
    /\ insight_pc = "sleep"

(***************************************************************************)
(* Broadcasts while clients come and go                                    *)
(***************************************************************************)
\* C37: whatever connects or disconnects meanwhile, a broadcast ends without
\* raising, and every session that is connected when it ends and was in the
\* pass has been sent the message
C37_BroadcastSurvivesChurn ==
    [][ \A b \in Broadcasters :
          ( bcast[b].msg # None /\ bcast'[b].msg = None )
          => /\ Cardinality(active_connections) = bcast[b].size
             /\ \A w \in active_connections \ bcast[b].disconnected :
                   ws_state[w] = "open" =>
                       \E i \in 1..Len(inbox[w]) : inbox[w][i] = Val(bcast[b].msg) ]_vars

(***************************************************************************)
(* Concurrent recording control                                            *)
(***************************************************************************)
\* the recording_status events in a client's inbox, in order of arrival
RecordingStatusEvents(w) == SelectSeq(inbox[w], LAMBDA m : m.type = "recording_status")

\* no recording_control request is being handled
ControlsHandled ==
    /\ \A w \in WebSockets : handler[w].pc = "idle"
    /\ \A b \in Broadcasters : bcast[b].msg = None

\* no connection has ended, and no request was answered with an error
NoneEnded ==
    /\ \A w \in WebSockets : ws_state[w] \in { "new", "open" }
    /\ \A w \in WebSockets : \A i \in 1..Len(inbox[w]) : inbox[w][i].type # "error"

\* C38: once every recording_control request has been handled, with no
\* connection lost and no request failed meanwhile, the last recording_status
\* event of every connected session tells the value of the recording flag
C38_LastStatusIsFlag ==
    ( ControlsHandled /\ NoneEnded ) =>
        \A w \in active_connections :
            LET events == RecordingStatusEvents(w)
            IN  ( ws_state[w] = "open" /\ events # <<>> )
                => events[Len(events)].recording = recording_enabled


(***************************************************************************)
(* The chat history between answers (SpecQA)                               *)
(***************************************************************************)
\* no answer_question call is between its first and its last statement
NoAnswerInProgress == \A w \in WebSockets : handler[w].pc # "llm"

\* a history of user messages each followed by the answer to it
Alternating(h) ==
    /\ Len(h) % 2 = 0
    /\ \A i \in 1..Len(h) :
          IF i % 2 = 1
          THEN h[i].role = "user"
          ELSE h[i].role = "assistant" /\ h[i].q = h[i - 1].q

\* C39: whenever no answer operation is in progress, every chat history is an
\* alternating sequence of user and assistant messages, each assistant
\* message the answer to the user message just before it, also after a failed
\* LLM call and after questions answered concurrently
C39_HistoryAlternates ==
    NoAnswerInProgress =>
        \A h \in QAHandlers : Alternating(conversation_history[h])


(***************************************************************************)
(* No audio lost or reordered (SpecSeg)                                    *)
(***************************************************************************)
\* the newly consumed samples of a batch: its audio after the replayed part
FreshAudio(b) ==
    SubSeq(b.audio_data, Len(b.audio_data) - b.fresh + 1, Len(b.audio_data))

\* the newly consumed samples of the batches, in emission order
RECURSIVE FreshConcat(_)
FreshConcat(batches) ==
    IF batches = <<>> THEN <<>>
    ELSE FreshAudio(Head(batches)) \o FreshConcat(Tail(batches))

\* C40: at any time the newly consumed parts of the emitted batches, in
\* emission order, followed by the pending buffer, are the samples accepted
\* by add_audio_chunk, in consumption order
C40_NoAudioLostOrReordered ==
    FreshConcat(emitted) \o current_batch = consumed

\* two batches emitted, the second replaying samples of the first, both
\* tones among the consumed samples, and samples pending
C40_Witness ==
    /\ Len(emitted) >= 2
    /\ Len(emitted[2].audio_data) > emitted[2].fresh
    /\ current_batch # <<>>
    /\ Range(consumed) = SampleValues


(***************************************************************************)
(* Queued batches reach the dispatcher (SpecFlow)                          *)
(***************************************************************************)
\* sequence ids of the batches waiting on the batch queue
QueuedIds == { batch_queue[i].sequence_id : i \in 1..Len(batch_queue) }

\* the batch with this sequence id was taken from the queue and passed to
\* transcribe_batch
HandedOver(s) == s \in Range(dequeued)

\* the batch with this sequence id was put on the queue and pushed out of it
\* by a later batch
DroppedByOverflow(s) ==
    /\ s < sequence_id
    /\ s \notin QueuedIds
    /\ ~HandedOver(s)

UpdateStep == kb_ops' = kb_ops + 1 /\ DocIds(documents') = DocIds(documents)

\* C33: every document has updated_at >= created_at, and every successful
\* update of an existing id leaves created_at unchanged and makes updated_at
\* strictly greater than before, also for updates in immediate succession
C33_UpdateAdvancesTimestamp ==
    /\ [](\A i \in 1..Len(documents) :
              documents[i].updated_at >= documents[i].created_at)
    /\ [][ UpdateStep =>
             /\ \A i \in 1..Len(documents) :
                   documents'[i].created_at = documents[i].created_at
             /\ \E i \in 1..Len(documents) :
                   documents'[i].updated_at > documents[i].updated_at ]_vars


\* the documents in the order they were created (ids are given in that order)
RECURSIVE InCreationOrder(_)
InCreationOrder(docs) ==
    IF docs = <<>> THEN <<>>
    ELSE LET i == CHOOSE i \in 1..Len(docs) :
                      \A j \in 1..Len(docs) : docs[i].doc_id <= docs[j].doc_id
         IN  << docs[i] >> \o InCreationOrder(RemoveAt(docs, i))

\* the contents of the documents with the separator between neighbours only
RECURSIVE Separated(_)
Separated(docs) ==
    IF Len(docs) = 1 THEN docs[1].content
    ELSE Separated(SubSeq(docs, 1, Len(docs) - 1)) \o SeparatorLines
             \o docs[Len(docs)].content

\* C34: the content string is the documents' contents in creation order, the
\* order in which list_documents returns them, with the separator once
\* between neighbours and nowhere else; it is empty without documents
C34_ContentInCreationOrder ==
    LET ordered == InCreationOrder(documents)
        listed  == list_documents(documents)
    IN  /\ Len(listed) = Len(ordered)
        /\ \A i \in 1..Len(ordered) : listed[i].doc_id = ordered[i].doc_id
        /\ get_content(documents) =
               IF documents = <<>> THEN EmptyString ELSE Separated(ordered)

\* two documents, the older one updated after the younger was created, and
\* the content string holds the older one's content first
C34_Witness ==
    /\ Len(documents) = 2
    /\ documents[1].updated_at > documents[2].created_at
    /\ documents[1].content # documents[2].content
    /\ get_content(documents) =
           documents[1].content \o SeparatorLines \o documents[2].content


\* the header lines of a level in a content, stripped, in order
HeaderLines(content, n) ==
    SelectSeq([ i \in 1..Len(content) |-> py_strip(content[i]) ],
              LAMBDA s : IF n = 1 THEN H1Match(s) ELSE H2Match(s))

\* the non-empty lines of a content, stripped, in order
TextLines(content) ==
    SelectSeq([ i \in 1..Len(content) |-> py_strip(content[i]) ],
              LAMBDA s : s # << >>)

\* the title the rule of precedence gives: level 1 before level 2 before text
TitleByPrecedence(content) ==
    IF HeaderLines(content, 1) # << >> THEN HeaderText(HeaderLines(content, 1)[1], 1)
    ELSE IF HeaderLines(content, 2) # << >> THEN HeaderText(HeaderLines(content, 2)[1], 2)
    ELSE IF TextLines(content) # << >>
    THEN LET line == TextLines(content)[1]
         IN  IF Len(line) > TitleMax
             THEN SubSeq(line, 1, TitleMax - 3) \o Ellipsis
             ELSE line
    ELSE Untitled

\* C35: the title of a document is the text of its first level-1 header if it
\* has one; only without any, of its first level-2 header; only without
\* either, its first non-empty line, cut with an ellipsis when too long; and
\* Untitled Document without a non-empty line
C35_TitleByPrecedence ==
    \A i \in 1..Len(documents) :
        list_documents(documents)[i].title = TitleByPrecedence(documents[i].content)


(***************************************************************************)
(* What a new connection is sent (SpecQA)                                  *)
(***************************************************************************)
\* C32: a new connection gets a session and is sent the welcome event and
\* then the knowledge-base content before any of its messages is processed
C32_WelcomeThenKbContent ==
    \A w \in WebSockets :
        ( ws_state[w] = "open" /\ received[w] # << >> ) =>
            /\ session_state[w] # "none"
            /\ Len(inbox[w]) >= 2
            /\ inbox[w][1].type = "status"
            /\ inbox[w][2].type = "kb_content"


(***************************************************************************)
(* The intent in the prompts (SpecIntent)                                  *)
(***************************************************************************)
\* C31: once a client has set the session intent, every prompt built by the
\* insight generator and by the Q&A handler, for answers and for suggested
\* questions, names the latest non-empty intent any client supplied
C31_PromptsNameLatestIntent ==
    \A i \in 1..Len(prompts) :
        prompts[i].latest # << >> => prompts[i].focus = prompts[i].latest

====
